---- MODULE Spec2Model ----
(***************************************************************************)
(* Wallet orchestration of gaboesquivel/dynamic: idempotent wallet         *)
(* provisioning over an external custody provider (Dynamic SDK) and the    *)
(* key_shares table.  Two provisioning services exist in the repository:   *)
(*   - createWalletService     (Elysia app, table keyed (address,chainType))*)
(*   - WalletService.createWallet (NestJS app, keyed (address,network)),   *)
(*     which calls EvmWalletClient/SolanaWalletClient.createWallet.        *)
(* A request is a cooperative task; every `await` on the store or on the   *)
(* provider is one atomic step, requests interleave between the steps.     *)
(***************************************************************************)
EXTENDS Integers, Sequences, FiniteSets, TLC

(***************************************************************************)
(* Bounds                                                                  *)
(***************************************************************************)
NumRequests == 2

\* transient provider failures and encryption failures injected in one run
MaxFaults == 1

(***************************************************************************)
(* Strings: toLowerCase() and includes() as the code uses them             *)
(***************************************************************************)
UpperToLower ==
  [c \in {"A","B","C","D","E","F","G","H","I","J","K","L","M","N","O","P","Q",
          "R","S","T","U","V","W","X","Y","Z"} |->
     CASE c = "A" -> "a" [] c = "B" -> "b" [] c = "C" -> "c" [] c = "D" -> "d"
       [] c = "E" -> "e" [] c = "F" -> "f" [] c = "G" -> "g" [] c = "H" -> "h"
       [] c = "I" -> "i" [] c = "J" -> "j" [] c = "K" -> "k" [] c = "L" -> "l"
       [] c = "M" -> "m" [] c = "N" -> "n" [] c = "O" -> "o" [] c = "P" -> "p"
       [] c = "Q" -> "q" [] c = "R" -> "r" [] c = "S" -> "s" [] c = "T" -> "t"
       [] c = "U" -> "u" [] c = "V" -> "v" [] c = "W" -> "w" [] c = "X" -> "x"
       [] c = "Y" -> "y" [] c = "Z" -> "z"]

\* toLowerCase, character by character (the string is split in halves to
\* keep the evaluation shallow)
RECURSIVE toLowerCase(_)
toLowerCase(s) ==
  IF Len(s) = 0 THEN ""
  ELSE IF Len(s) = 1
    THEN (IF s \in DOMAIN UpperToLower THEN UpperToLower[s] ELSE s)
  ELSE LET half == Len(s) \div 2
       IN  toLowerCase(SubSeq(s, 1, half)) \o toLowerCase(SubSeq(s, half + 1, Len(s)))

includes(s, p) ==
  \E i \in 1..(Len(s) - Len(p) + 1) : SubSeq(s, i, i + Len(p) - 1) = p

(***************************************************************************)
(* Error values.  One record shape covers what the code inspects:          *)
(*   isError  - `error instanceof Error` (has a stack)                     *)
(*   isHttp   - `error instanceof HttpException`                           *)
(*   message, stack, status (0 = no status field)                          *)
(*   nested   - error.error : "" when absent, else the string              *)
(*   cause    - error.cause.message : "" when absent                       *)
(*   address  - wallet address in the SDK payload                          *)
(*              (error.response.data.address / error.data.address / ...)   *)
(*   details  - response.details.existingWalletAddress of an HttpException *)
(***************************************************************************)
NoAddr == "none"

MkError(isError, isHttp, message, stack, status, nested, cause, address, details) ==
  [isError |-> isError, isHttp |-> isHttp, message |-> message, stack |-> stack,
   status |-> status, nested |-> nested, cause |-> cause,
   address |-> address, details |-> details]

\* new Error(message): the stack starts with "Error: <message>"
NewError(message) ==
  MkError(TRUE, FALSE, message, "Error: " \o message \o " at <anonymous>",
          0, "", "", NoAddr, NoAddr)

\* new HttpException({message, details}, status)
NewHttpException(name, status, message, details) ==
  MkError(TRUE, TRUE, message, name \o ": " \o message \o " at <anonymous>",
          status, "", "", NoAddr, details)

isHttpException(error) == error.isHttp

\* JSON.stringify(error): own enumerable string fields.  message and stack of
\* a plain Error are not enumerable; an HttpException serialises its response.
JsonStringify(error) ==
  (IF error.isHttp \/ ~error.isError THEN error.message ELSE "")
    \o "," \o error.nested \o "," \o error.cause

\* @vencura/lib getErrorMessage: error.message of an Error
getErrorMessage(error) == error.message

MultipleWalletsPhrases ==
  {"multiple wallets per chain", "wallet already exists",
   "you cannot create multiple wallets"}

extractDynamicSDKErrorMessage(error) ==
  LET stackLower == toLowerCase(error.stack)
  IN  IF error.isError /\ includes(stackLower, "multiple wallets per chain not allowed")
        THEN "Multiple wallets per chain not allowed"
      ELSE IF error.isError /\ includes(stackLower, "wallet already exists")
        THEN "Wallet already exists"
      ELSE IF error.isError /\ includes(stackLower, "you cannot create multiple wallets")
        THEN "You cannot create multiple wallets"
      ELSE IF error.nested # "" THEN error.nested
      ELSE IF ~error.isError /\ error.cause # "" THEN error.cause
      ELSE error.message

extractExistingWalletAddress(error) == error.address

\* variant: the rate-limit check runs before the authentication check
classifyDynamicSDKError_RateLimitFirst(error, errorMessage) ==
  LET lowerMessage == toLowerCase(errorMessage)
      stackLower == IF error.isError THEN toLowerCase(error.stack) ELSE ""
      errorStatus == error.status
      nestedErrorMessage == toLowerCase(error.nested)
      causeMessage == toLowerCase(error.cause)
      errorString == toLowerCase(JsonStringify(error))
      isMultipleWalletsError ==
        \/ \E p \in MultipleWalletsPhrases : includes(stackLower, p)
        \/ errorStatus = 400
        \/ \E p \in MultipleWalletsPhrases : includes(lowerMessage, p)
        \/ \E p \in MultipleWalletsPhrases : includes(nestedErrorMessage, p)
        \/ \E p \in MultipleWalletsPhrases : includes(causeMessage, p)
        \/ \E p \in MultipleWalletsPhrases : includes(errorString, p)
        \/ /\ includes(lowerMessage, "error creating")
           /\ includes(lowerMessage, "wallet")
           /\ \E p \in {"account", "evm", "svm", "solana"} : includes(lowerMessage, p)
  IN  IF isMultipleWalletsError
        THEN [type |-> "multiple_wallets", statusCode |-> 400]
      ELSE IF \/ errorStatus = 429
              \/ \E p \in {"rate limit", "throttle", "too many", "quota",
                           "limit exceeded"} : includes(lowerMessage, p)
        THEN [type |-> "rate_limit", statusCode |-> 429]
      ELSE IF \E p \in {"authentication", "token", "unauthorized", "auth",
                        "credential", "permission denied"} : includes(lowerMessage, p)
        THEN [type |-> "authentication", statusCode |-> 401]
      ELSE IF \E p \in {"network", "timeout", "connection", "econnrefused",
                        "enotfound", "econnreset", "socket", "dns"} :
                 includes(lowerMessage, p)
        THEN [type |-> "network", statusCode |-> 502]
      ELSE IF \E p \in {"not found", "does not exist", "missing",
                        "not available"} : includes(lowerMessage, p)
        THEN [type |-> "not_found", statusCode |-> 400]
      ELSE IF \E p \in {"forbidden", "access denied", "not allowed"} :
                 includes(lowerMessage, p)
        THEN [type |-> "forbidden", statusCode |-> 401]
      ELSE [type |-> "unknown", statusCode |-> 500]

\* variant: error.cause and the serialized error are not inspected
classifyDynamicSDKError_NoCause(error, errorMessage) ==
  LET lowerMessage == toLowerCase(errorMessage)
      stackLower == IF error.isError THEN toLowerCase(error.stack) ELSE ""
      errorStatus == error.status
      nestedErrorMessage == toLowerCase(error.nested)
      causeMessage == toLowerCase(error.cause)
      errorString == toLowerCase(JsonStringify(error))
      isMultipleWalletsError ==
        \/ \E p \in MultipleWalletsPhrases : includes(stackLower, p)
        \/ errorStatus = 400
        \/ \E p \in MultipleWalletsPhrases : includes(lowerMessage, p)
        \/ \E p \in MultipleWalletsPhrases : includes(nestedErrorMessage, p)
        \/ /\ includes(lowerMessage, "error creating")
           /\ includes(lowerMessage, "wallet")
           /\ \E p \in {"account", "evm", "svm", "solana"} : includes(lowerMessage, p)
  IN  IF isMultipleWalletsError
        THEN [type |-> "multiple_wallets", statusCode |-> 400]
      ELSE IF \E p \in {"authentication", "token", "unauthorized", "auth",
                        "credential", "permission denied"} : includes(lowerMessage, p)
        THEN [type |-> "authentication", statusCode |-> 401]
      ELSE IF \/ errorStatus = 429
              \/ \E p \in {"rate limit", "throttle", "too many", "quota",
                           "limit exceeded"} : includes(lowerMessage, p)
        THEN [type |-> "rate_limit", statusCode |-> 429]
      ELSE IF \E p \in {"network", "timeout", "connection", "econnrefused",
                        "enotfound", "econnreset", "socket", "dns"} :
                 includes(lowerMessage, p)
        THEN [type |-> "network", statusCode |-> 502]
      ELSE IF \E p \in {"not found", "does not exist", "missing",
                        "not available"} : includes(lowerMessage, p)
        THEN [type |-> "not_found", statusCode |-> 400]
      ELSE IF \E p \in {"forbidden", "access denied", "not allowed"} :
                 includes(lowerMessage, p)
        THEN [type |-> "forbidden", statusCode |-> 401]
      ELSE [type |-> "unknown", statusCode |-> 500]

classifyDynamicSDKError(error, errorMessage) ==
  LET lowerMessage == toLowerCase(errorMessage)
      stackLower == IF error.isError THEN toLowerCase(error.stack) ELSE ""
      errorStatus == error.status
      nestedErrorMessage == toLowerCase(error.nested)
      causeMessage == toLowerCase(error.cause)
      errorString == toLowerCase(JsonStringify(error))
      isMultipleWalletsError ==
        \/ \E p \in MultipleWalletsPhrases : includes(stackLower, p)
        \/ errorStatus = 400
        \/ \E p \in MultipleWalletsPhrases : includes(lowerMessage, p)
        \/ \E p \in MultipleWalletsPhrases : includes(nestedErrorMessage, p)
        \/ \E p \in MultipleWalletsPhrases : includes(causeMessage, p)
        \/ \E p \in MultipleWalletsPhrases : includes(errorString, p)
        \/ /\ includes(lowerMessage, "error creating")
           /\ includes(lowerMessage, "wallet")
           /\ \E p \in {"account", "evm", "svm", "solana"} : includes(lowerMessage, p)
  IN  IF isMultipleWalletsError
        THEN [type |-> "multiple_wallets", statusCode |-> 400]
      ELSE IF \E p \in {"authentication", "token", "unauthorized", "auth",
                        "credential", "permission denied"} : includes(lowerMessage, p)
        THEN [type |-> "authentication", statusCode |-> 401]
      ELSE IF \/ errorStatus = 429
              \/ \E p \in {"rate limit", "throttle", "too many", "quota",
                           "limit exceeded"} : includes(lowerMessage, p)
        THEN [type |-> "rate_limit", statusCode |-> 429]
      ELSE IF \E p \in {"network", "timeout", "connection", "econnrefused",
                        "enotfound", "econnreset", "socket", "dns"} :
                 includes(lowerMessage, p)
        THEN [type |-> "network", statusCode |-> 502]
      ELSE IF \E p \in {"not found", "does not exist", "missing",
                        "not available"} : includes(lowerMessage, p)
        THEN [type |-> "not_found", statusCode |-> 400]
      ELSE IF \E p \in {"forbidden", "access denied", "not allowed"} :
                 includes(lowerMessage, p)
        THEN [type |-> "forbidden", statusCode |-> 401]
      ELSE [type |-> "unknown", statusCode |-> 500]

\* variant: every failure is thrown as an internal server error
handleDynamicSDKError_AllInternal(error, details) ==
  NewHttpException("InternalServerErrorException", 500,
                   extractDynamicSDKErrorMessage(error), details)

\* handleDynamicSDKError never returns: the value is the exception it throws.
handleDynamicSDKError(error, details) ==
  IF isHttpException(error) THEN error
  ELSE
    LET extracted == extractDynamicSDKErrorMessage(error)
        classification == classifyDynamicSDKError(error, extracted)
        lower == toLowerCase(extracted)
        errorMessage ==
          IF /\ classification.type = "multiple_wallets"
             /\ \/ includes(lower, "error creating")
                \/ includes(lower, "error in")
                \/ includes(lower, "failed to")
            THEN "Multiple wallets per chain not allowed"
            ELSE extracted
    IN  CASE classification.type = "multiple_wallets" ->
               NewHttpException("BadRequestException", 400, errorMessage, details)
          [] classification.type = "authentication" ->
               NewHttpException("UnauthorizedException", 401, errorMessage, details)
          [] classification.type = "rate_limit" ->
               NewHttpException("HttpException", 429, errorMessage, details)
          [] classification.type = "network" ->
               NewHttpException("BadGatewayException", 502, errorMessage, details)
          [] classification.type = "not_found" ->
               NewHttpException("BadRequestException", 400, errorMessage, details)
          [] classification.type = "forbidden" ->
               NewHttpException("UnauthorizedException", 401, errorMessage, details)
          [] OTHER ->
               NewHttpException("InternalServerErrorException", 500, errorMessage, details)


(***************************************************************************)
(* Chain registry (../common/chains): chain identifier -> metadata          *)
(***************************************************************************)
ChainTypes == {"evm", "solana"}

\* identifiers accepted by the NestJS service; "999999" is not in the registry
NestChainIds == {"421614", "84532", "solana-devnet", "999999"}

ChainRegistry ==
  [c \in {"421614", "84532", "solana-devnet"} |->
     CASE c = "421614" -> [chainType |-> "evm", dynamicNetworkId |-> "421614"]
       [] c = "84532" -> [chainType |-> "evm", dynamicNetworkId |-> "84532"]
       [] c = "solana-devnet" ->
            [chainType |-> "solana", dynamicNetworkId |-> "solana-devnet"]]

isSupportedChain(chainId) == chainId \in DOMAIN ChainRegistry

\* "" stands for the undefined result of a lookup of an unknown identifier
getDynamicNetworkId(chainId) ==
  IF isSupportedChain(chainId) THEN ChainRegistry[chainId].dynamicNetworkId ELSE ""

getChainType(chainId) ==
  IF isSupportedChain(chainId) THEN ChainRegistry[chainId].chainType ELSE ""

\* WalletService.getChainTypeFromNetwork
getChainTypeFromNetwork(network) ==
  IF Len(network) >= 7 /\ SubSeq(network, 1, 7) = "solana-" THEN "solana" ELSE "evm"

(***************************************************************************)
(* Derived wallet id: sha256(address ":" chain) cut into a uuid-like string *)
(***************************************************************************)
Sha256Hex(input) == "sha256(" \o input \o ")"

\* variant: the id is derived from the address alone
generateWalletId_AddressOnly(address, network) == "uuid4-" \o Sha256Hex(address)

generateWalletId(address, network) == "uuid4-" \o Sha256Hex(address \o ":" \o network)

(***************************************************************************)
(* Encryption of the key shares and the key_shares table                   *)
(***************************************************************************)
encrypt(plaintext) == "enc(" \o plaintext \o ")"

\* variant: the chain column is written with a fixed value
KeyShareRow_FixedChain(address, chain, encryptedKeyShares) ==
  [address |-> address, chain |-> "evm", encryptedKeyShares |-> encryptedKeyShares]

KeyShareRow(address, chain, encryptedKeyShares) ==
  [address |-> address, chain |-> chain, encryptedKeyShares |-> encryptedKeyShares]

\* variant: the write replaces the table
Upsert_ReplaceTable(table, row) == {row}

\* variant: a plain insert, no conflict target
Upsert_InsertOnly(table, row) == table \cup {row}

\* insert(...).onConflictDoUpdate(target: [address, chain], set: {encryptedKeyShares})
Upsert(table, row) ==
  {s \in table : ~(s.address = row.address /\ s.chain = row.chain)} \cup {row}

\* variant: the id is derived from the chain and the address in the wrong order
WalletOf_SwappedId(keyShare) ==
  [id |-> generateWalletId(keyShare.chain, keyShare.address),
   address |-> keyShare.address, chain |-> keyShare.chain]

\* getUserWallets(): every row of key_shares, with its derived id
WalletOf(keyShare) ==
  [id |-> generateWalletId(keyShare.address, keyShare.chain),
   address |-> keyShare.address, chain |-> keyShare.chain]

\* variant: find() compares the wrong field of the wallet with the chain
MatchesChain_WrongField(w, chain) == w.address = chain

\* existingWallets.find(w => w.chainType === chainType)   (Elysia)
\* existingWallets.find(w => w.network === dynamicNetworkId)   (NestJS)
MatchesChain(w, chain) == w.chain = chain

FindWallets(table, chain) == {WalletOf(k) : k \in {s \in table : MatchesChain(s, chain)}}

(***************************************************************************)
(* The custody provider (Dynamic SDK createWalletAccount): one wallet per  *)
(* chain type; a second creation is rejected.                              *)
(***************************************************************************)
ProviderAddress(chainType) == IF chainType = "evm" THEN "0xA11ce" ELSE "So1ana"

ProviderShares(address) == "[share-of-" \o address \o "]"

SdkError(message, stackTail, status, address) ==
  MkError(TRUE, FALSE, message, "Error: " \o message \o " at " \o stackTail,
          status, "", "", address, NoAddr)

\* shapes of the rejection of a second wallet for the chain type
DuplicateErrors(existing) ==
  {SdkError("Multiple wallets per chain not allowed", "createWalletAccount", 0, a)
     : a \in {NoAddr, existing}}
  \cup
  {SdkError("Error creating evm wallet account",
            "Error: Multiple wallets per chain not allowed", 0, a)
     : a \in {NoAddr, existing}}

\* failures the provider can answer with at any time
TransientErrors ==
  {SdkError("Invalid API token", "authenticateApiToken", 401, NoAddr),
   SdkError("Too many requests", "createWalletAccount", 429, NoAddr),
   SdkError("Network timeout", "createWalletAccount", 0, NoAddr),
   SdkError("Resource not found", "createWalletAccount", 404, NoAddr),
   SdkError("Access denied", "createWalletAccount", 403, NoAddr),
   SdkError("Internal error", "createWalletAccount", 500, NoAddr)}

EncryptionError == NewError("Encryption failed")

NoError == MkError(FALSE, FALSE, "", "", 0, "", "", NoAddr, NoAddr)

\* every error the provider can answer with
SdkErrors ==
  TransientErrors \cup UNION {DuplicateErrors(ProviderAddress(t)) : t \in ChainTypes}

\* classification of the provider's failure, tabulated once per error
RawType ==
  [e \in SdkErrors |->
     classifyDynamicSDKError(e, extractDynamicSDKErrorMessage(e)).type]

(***************************************************************************)
(* State                                                                   *)
(***************************************************************************)
VARIABLES
  impl,      \* which service serves the requests: "elysia" or "nest"
  keyShares, \* the key_shares table
  provider,  \* chain type -> address of the wallet the provider holds
  req,       \* request id -> the request's local state
  faults,    \* number of failures injected so far
  op,        \* the wallet operation (balance, sign, send) in progress
  auth,      \* the custody clients' caches and the callers obtaining a client
  retry,     \* the calls wrapped by RateLimitService.retryWithBackoff
  cls,       \* an error handed to classifyDynamicSDKError and its classification
  lastUpsert,\* the row of the last upsert and whether its key was in the table
  ident,\* two processes deriving wallet ids from (address, chain) pairs
  boot,\* process start: environment, configuration version, outcome, requests served
  sani,\* an upstream failure on its way to the caller: error, mode, messages
  call,\* one outbound call: site, timer, remote outcome, result
  rlconf,\* RateLimitService configuration: supplied values, state, parsed config
  send \* SolanaWalletClient.sendTransaction: the call's locals, calls made, outcome

vars == <<impl, keyShares, provider, req, faults, op, auth, retry, cls, lastUpsert, ident, boot, sani, call, rlconf, send>>

\* the variables of the sub-models that the services' actions leave alone
otherVars == <<lastUpsert, ident, boot, sani, call, rlconf, send>>

Requests == 1..NumRequests

NoResponse == [kind |-> "none", id |-> "", address |-> NoAddr, isNew |-> FALSE,
               status |-> 0, message |-> ""]

OkResponse(id, address, isNew) ==
  [kind |-> "ok", id |-> id, address |-> address, isNew |-> isNew,
   status |-> 0, message |-> ""]

\* the request ends by throwing `error`
Thrown(error) ==
  [kind |-> "error", id |-> "", address |-> NoAddr, isNew |-> FALSE,
   status |-> error.status, message |-> error.message]

\* variant: the Solana client asks the provider to back the shares up
createWalletAccountParams_Backup(chainType) ==
  [thresholdSignatureScheme |-> "TWO_OF_TWO",
   backUpToClientShareService |-> chainType = "solana"]

\* the argument of createWalletAccount in EvmWalletClient.createWallet and
\* SolanaWalletClient.createWallet
createWalletAccountParams(chainType) ==
  [thresholdSignatureScheme |-> "TWO_OF_TWO", backUpToClientShareService |-> FALSE]

IdleRequest ==
  [pc |-> "idle", chain |-> "", wallet |-> NoAddr, error |-> NoError,
   rawType |-> "none", payload |-> NoAddr, response |-> NoResponse, after |-> {},
   calls |-> 0, writes |-> 0,
   sdkParams |-> [thresholdSignatureScheme |-> "none", backUpToClientShareService |-> FALSE]]

\* no wallet operation has been issued
IdleOp ==
  [pc |-> "idle", kind |-> "", walletId |-> "", userId |-> "", address |-> NoAddr,
   network |-> "", status |-> 0, ids |-> {}, decrypts |-> 0, calls |-> 0,
   to |-> ""]

\* a caller of getDynamicEvmClient / getDynamicSvmClient that has not called yet
IdleCaller ==
  [pc |-> "idle", family |-> "", handle |-> 0, status |-> 0, used |-> "none"]

\* private dynamicEvmClient / dynamicSvmClient = null; no client object exists
IdleAuth ==
  [cache |-> [t \in ChainTypes |-> 0],
   authenticated |-> {},
   authCalls |-> [t \in ChainTypes |-> 0],
   failed |-> [t \in ChainTypes |-> FALSE],
   caller |-> [c \in Requests |-> IdleCaller]]

\* no call of retryWithBackoff has been made
IdleRetry ==
  [c \in Requests |->
     [pc |-> "idle", attempts |-> 0, failure |-> NoError, result |-> "none",
      thrown |-> NoError, retryAfter |-> "", waited |-> <<>>]]

\* nothing has been classified
IdleCls == [input |-> NoError, shown |-> {}, type |-> "none", statusCode |-> 0,
            thrown |-> NoError]

\* no SolanaWalletClient.sendTransaction call is being made
IdleSend ==
  [pc |-> "idle", transaction |-> <<>>, to |-> "", amount |-> 0, trace |-> <<>>,
   signedTransaction |-> "", signature |-> "", confirmed |-> FALSE,
   result |-> "", thrown |-> 0]

\* no RateLimitService is being initialised
IdleRlconf == [supplied |-> <<>>, state |-> "", config |-> <<>>]

\* no outbound call is being made
IdleCall == [site |-> <<>>, timeoutMs |-> 0, outcome |-> "", state |-> "",
             timer |-> "none", result |-> "", message |-> "", type |-> ""]

\* no failure is being reported
IdleSani == [input |-> NoError, isProduction |-> FALSE, state |-> "",
             message |-> "", sanitized |-> ""]

\* no process is being started
IdleBoot == [version |-> "", env |-> <<>>, state |-> "", error |-> "", served |-> {}]

\* no process has derived an id yet
IdleIdent == [pair |-> <<>>, id |-> <<>>]

NoUpsert == [address |-> NoAddr, chain |-> "", encryptedKeyShares |-> "", conflict |-> FALSE]

Init ==
  /\ impl \in {"elysia", "nest"}
  /\ keyShares = {}
  /\ provider = [t \in ChainTypes |-> NoAddr]
  /\ req = [r \in Requests |-> IdleRequest]
  /\ faults = 0
  /\ op = IdleOp
  /\ auth = IdleAuth
  /\ retry = IdleRetry
  /\ cls = IdleCls
  /\ lastUpsert = NoUpsert
  /\ ident = IdleIdent
  /\ boot = IdleBoot
  /\ sani = IdleSani
  /\ call = IdleCall
  /\ rlconf = IdleRlconf
  /\ send = IdleSend

Done(r) == req[r].pc = "done"

\* requests are issued in the order of their ids
CanStart(r) ==
  /\ req[r].pc = "idle"
  /\ IF r = 1 THEN TRUE ELSE req[r - 1].pc # "idle"

\* the request returns or throws: its locals are gone, the response stays
Finish(s, response) ==
  [s EXCEPT !.pc = "done", !.response = response, !.error = NoError,
            !.wallet = NoAddr]

(***************************************************************************)
(* The provider's answer to one createWalletAccount call for a chain type: *)
(* a new wallet when it holds none, a rejection when it holds one, or a    *)
(* transient failure.                                                      *)
(***************************************************************************)
ProviderRejections(chainType) ==
  IF provider[chainType] # NoAddr THEN DuplicateErrors(provider[chainType]) ELSE {}

ProviderCreates(chainType) == provider[chainType] = NoAddr

(***************************************************************************)
(* Elysia service: createWalletService({userId, chainType})                *)
(***************************************************************************)
\* variant: the short-circuit reports the existing wallet as new
ExistingWalletResponse_AsNew(w) == OkResponse(w.id, w.address, TRUE)

\* step 1: getUserWallets() and the idempotent short-circuit
ExistingWalletResponse(w) == OkResponse(w.id, w.address, FALSE)

E_ExistenceCheck(r, chainType) ==
  /\ impl = "elysia"
  /\ CanStart(r)
  /\ LET started == [req[r] EXCEPT !.chain = chainType,
                                   !.after = {q \in Requests : Done(q)}]
         existing == FindWallets(keyShares, chainType)
     IN  \/ /\ existing # {}
            /\ \E w \in existing :
                 req' = [req EXCEPT ![r] = Finish(started, ExistingWalletResponse(w))]
         \/ /\ existing = {}
            /\ req' = [req EXCEPT ![r] = [started EXCEPT !.pc = "create"]]
  /\ UNCHANGED <<op, auth, retry, cls, otherVars>>
  /\ UNCHANGED <<impl, keyShares, provider, faults>>

\* catch block of createWalletService: is the failure a wallet-creation error?
E_isWalletCreationError(error) ==
  LET lowerMessage == toLowerCase(error.message)
      stackLower == toLowerCase(error.stack)
      isMultipleWalletsError ==
        \/ \E p \in MultipleWalletsPhrases : includes(stackLower, p)
        \/ \E p \in MultipleWalletsPhrases : includes(lowerMessage, p)
  IN  \/ includes(lowerMessage, "error creating")
      \/ includes(lowerMessage, "wallet account")
      \/ isMultipleWalletsError

\* the catch decision, tabulated once per error that can reach the catch block
E_WalletCreationErrors ==
  {e \in SdkErrors \cup {EncryptionError} : E_isWalletCreationError(e)}

\* variant: the catch block throws again without the final check
E_Catch_NoRequery(s, error) == Finish(s, Thrown(error))

\* the state a request is in after its try block threw `error`
E_Catch(s, error) ==
  IF error \in E_WalletCreationErrors
    THEN [s EXCEPT !.pc = "finalCheck", !.error = error]
    ELSE Finish(s, Thrown(error))

\* step 2: createWallet({userId, chainType}) of ./wallet-client; the SDK error
\* reaches the service as thrown
E_CreateWallet(r) ==
  /\ impl = "elysia"
  /\ req[r].pc = "create"
  /\ LET chainType == req[r].chain
         called == [req[r] EXCEPT !.calls = @ + 1]
     IN  \/ /\ ProviderCreates(chainType)
            /\ provider' = [provider EXCEPT ![chainType] = ProviderAddress(chainType)]
            /\ req' = [req EXCEPT ![r] =
                         [called EXCEPT !.pc = "persist",
                                        !.wallet = ProviderAddress(chainType)]]
            /\ UNCHANGED faults
         \/ /\ \E e \in ProviderRejections(chainType) :
                 req' = [req EXCEPT ![r] =
                           E_Catch([called EXCEPT !.rawType = RawType[e],
                                                  !.payload = e.address], e)]
            /\ UNCHANGED <<provider, faults>>
         \/ /\ faults < MaxFaults
            /\ faults' = faults + 1
            /\ \E e \in TransientErrors :
                 req' = [req EXCEPT ![r] =
                           E_Catch([called EXCEPT !.rawType = RawType[e],
                                                  !.payload = e.address], e)]
            /\ UNCHANGED provider
  /\ UNCHANGED <<op, auth, retry, cls, otherVars>>
  /\ UNCHANGED <<impl, keyShares>>

NewWalletResponse(address, chain) ==
  OkResponse(generateWalletId(address, chain), address, TRUE)

\* variant: the serialised shares are stored as they came from the provider
E_Persist_Plaintext(r) ==
  /\ impl = "elysia"
  /\ req[r].pc = "persist"
  /\ LET s == req[r]
     IN  \/ /\ keyShares' = Upsert(keyShares,
                              KeyShareRow(s.wallet, s.chain,
                                          ProviderShares(s.wallet)))
            /\ req' = [req EXCEPT ![r] =
                         Finish([s EXCEPT !.writes = @ + 1],
                                NewWalletResponse(s.wallet, s.chain))]
            /\ UNCHANGED faults
         \/ /\ faults < MaxFaults
            /\ faults' = faults + 1
            /\ req' = [req EXCEPT ![r] = E_Catch(s, EncryptionError)]
            /\ UNCHANGED keyShares
  /\ UNCHANGED <<op, auth, retry, cls, otherVars>>
  /\ UNCHANGED <<impl, provider>>

\* variant: a row is written although the encryption failed
E_Persist_WriteOnFailure(r) ==
  /\ impl = "elysia"
  /\ req[r].pc = "persist"
  /\ LET s == req[r]
     IN  \/ /\ keyShares' = Upsert(keyShares,
                              KeyShareRow(s.wallet, s.chain,
                                          encrypt(ProviderShares(s.wallet))))
            /\ req' = [req EXCEPT ![r] =
                         Finish([s EXCEPT !.writes = @ + 1],
                                NewWalletResponse(s.wallet, s.chain))]
            /\ UNCHANGED faults
         \/ /\ faults < MaxFaults
            /\ faults' = faults + 1
            /\ req' = [req EXCEPT ![r] = E_Catch(s, EncryptionError)]
            /\ keyShares' = Upsert(keyShares, KeyShareRow(s.wallet, s.chain, ""))
  /\ UNCHANGED <<op, auth, retry, cls, otherVars>>
  /\ UNCHANGED <<impl, provider>>

\* step 3: encryptKeyShare(JSON.stringify(shares)) and the upsert
E_Persist(r) ==
  /\ impl = "elysia"
  /\ req[r].pc = "persist"
  /\ LET s == req[r]
     IN  \/ /\ keyShares' = Upsert(keyShares,
                              KeyShareRow(s.wallet, s.chain,
                                          encrypt(ProviderShares(s.wallet))))
            /\ req' = [req EXCEPT ![r] =
                         Finish([s EXCEPT !.writes = @ + 1],
                                NewWalletResponse(s.wallet, s.chain))]
            /\ UNCHANGED faults
         \/ /\ faults < MaxFaults
            /\ faults' = faults + 1
            /\ req' = [req EXCEPT ![r] = E_Catch(s, EncryptionError)]
            /\ UNCHANGED keyShares
  /\ UNCHANGED <<op, auth, retry, cls, otherVars>>
  /\ UNCHANGED <<impl, provider>>

E_AlreadyExistsError(chainType) ==
  NewError("Wallet already exists for chainType " \o chainType
             \o ". Multiple wallets per chainType are not allowed.")

\* step 4: the final check of the table after a wallet-creation error
E_FinalCheck(r) ==
  /\ impl = "elysia"
  /\ req[r].pc = "finalCheck"
  /\ LET s == req[r]
         found == FindWallets(keyShares, s.chain)
     IN  \/ /\ found # {}
            /\ \E w \in found :
                 req' = [req EXCEPT ![r] = Finish(s, ExistingWalletResponse(w))]
         \/ /\ found = {}
            /\ req' = [req EXCEPT ![r] = Finish(s, Thrown(E_AlreadyExistsError(s.chain)))]
  /\ UNCHANGED <<op, auth, retry, cls, otherVars>>
  /\ UNCHANGED <<impl, keyShares, provider, faults>>

(***************************************************************************)
(* NestJS service: WalletService.createWallet(userId, chainId) over        *)
(* EvmWalletClient / SolanaWalletClient .createWallet                      *)
(***************************************************************************)
\* variant: the chain client drops the address found in the SDK payload
N_ClientThrows_NoDetails(e) == handleDynamicSDKError(e, NoAddr)

\* catch block of the chain client's createWallet: the address found in the
\* SDK payload goes into the details of the exception thrown upward
N_ClientThrows(e) == handleDynamicSDKError(e, extractExistingWalletAddress(e))

\* variant: the unsupported chain is reported as an internal error
UnsupportedChainError_500(chainId) ==
  NewHttpException("InternalServerErrorException", 500,
    "Unsupported chain: " \o chainId
      \o ". Please provide a valid chain ID or Dynamic network ID.", NoAddr)

UnsupportedChainError(chainId) ==
  NewHttpException("BadRequestException", 400,
    "Unsupported chain: " \o chainId
      \o ". Please provide a valid chain ID or Dynamic network ID.", NoAddr)

\* WalletService.extractWalletAddressFromError
extractWalletAddressFromError(error) ==
  IF isHttpException(error) THEN error.details ELSE NoAddr

\* isMultipleWalletsError of the inner catch block
N_InnerIsMultipleWalletsError(error) ==
  LET errorMessage == extractDynamicSDKErrorMessage(error)
      lowerMessage == toLowerCase(errorMessage)
      stackLower == IF error.isError THEN toLowerCase(error.stack) ELSE ""
      hasExistingWalletInDetails == isHttpException(error) /\ error.details # NoAddr
      classification == classifyDynamicSDKError(error, errorMessage)
  IN  \/ hasExistingWalletInDetails
      \/ classification.type = "multiple_wallets"
      \/ \E p \in MultipleWalletsPhrases : includes(lowerMessage, p)
      \/ includes(stackLower, "multiple wallets per chain")
      \/ includes(stackLower, "wallet already exists")
      \/ /\ isHttpException(error)
         /\ error.status = 400
         /\ \/ includes(lowerMessage, "multiple wallets")
            \/ includes(lowerMessage, "error creating")
            \/ includes(lowerMessage, "wallet")
            \/ includes(stackLower, "multiple wallets")

\* isMultipleWalletsError of the outer catch block (HTTP exceptions only)
N_OuterIsMultipleWalletsError(error) ==
  LET errorMessage == extractDynamicSDKErrorMessage(error)
      lowerMessage == toLowerCase(errorMessage)
      stackLower == IF error.isError THEN toLowerCase(error.stack) ELSE ""
      classification == classifyDynamicSDKError(error, errorMessage)
  IN  \/ classification.type = "multiple_wallets"
      \/ includes(lowerMessage, "multiple wallets per chain")
      \/ includes(lowerMessage, "wallet already exists")
      \/ includes(stackLower, "multiple wallets per chain")
      \/ /\ error.status = 400
         /\ \/ includes(lowerMessage, "multiple wallets")
            \/ includes(lowerMessage, "error creating")
            \/ includes(stackLower, "multiple wallets")

\* the errors that can reach the catch blocks of WalletService.createWallet,
\* and the catch decisions tabulated once per error
N_Errors ==
  {N_ClientThrows(e) : e \in SdkErrors} \cup {EncryptionError}
    \cup {UnsupportedChainError(c) : c \in NestChainIds}

N_InnerMultiple == {e \in N_Errors : N_InnerIsMultipleWalletsError(e)}

N_OuterMultiple ==
  {e \in N_Errors : isHttpException(e) /\ N_OuterIsMultipleWalletsError(e)}

N_Thrown == [e \in SdkErrors |-> N_ClientThrows(e)]

\* outer catch block, up to its first await
N_OuterCatch(s, error) ==
  IF isHttpException(error)
    THEN IF error \in N_OuterMultiple /\ isSupportedChain(s.chain)
           THEN [s EXCEPT !.pc = "outerRequery", !.error = error]
           ELSE Finish(s, Thrown(error))
    ELSE Finish(s, Thrown(NewHttpException("InternalServerErrorException", 500,
                    "Failed to create wallet: " \o getErrorMessage(error), NoAddr)))

\* variant: the recovered wallet is reported as new
RecoveredResponse_AsNew(address, network) ==
  OkResponse(generateWalletId(address, network), address, TRUE)

\* the wallet returned when the existing address is known
RecoveredResponse(address, network) ==
  OkResponse(generateWalletId(address, network), address, FALSE)

\* inner catch block, up to its first await
N_InnerCatch(s, error) ==
  IF error \in N_InnerMultiple
    THEN IF extractWalletAddressFromError(error) # NoAddr
           THEN Finish(s, RecoveredResponse(extractWalletAddressFromError(error),
                                            getDynamicNetworkId(s.chain)))
           ELSE [s EXCEPT !.pc = "innerRequery", !.error = error]
    ELSE N_OuterCatch(s, error)

\* the guards before the first await: unsupported chain, no metadata, no
\* network id, no chain type
N_RejectsChain(chainId) ==
  \/ ~isSupportedChain(chainId)
  \/ getDynamicNetworkId(chainId) = ""
  \/ getChainType(chainId) = ""

\* chain validation, then getUserWallets() and the idempotent short-circuit
N_ExistenceCheck(r, chainId) ==
  /\ impl = "nest"
  /\ CanStart(r)
  /\ LET started == [req[r] EXCEPT !.chain = chainId,
                                   !.after = {q \in Requests : Done(q)}]
     IN  IF N_RejectsChain(chainId)
           THEN req' = [req EXCEPT ![r] =
                          N_OuterCatch(started, UnsupportedChainError(chainId))]
           ELSE LET existing == FindWallets(keyShares, getDynamicNetworkId(chainId))
                IN  \/ /\ existing # {}
                       /\ \E w \in existing :
                            req' = [req EXCEPT ![r] =
                                      Finish(started, ExistingWalletResponse(w))]
                    \/ /\ existing = {}
                       /\ req' = [req EXCEPT ![r] = [started EXCEPT !.pc = "create"]]
  /\ UNCHANGED <<op, auth, retry, cls, otherVars>>
  /\ UNCHANGED <<impl, keyShares, provider, faults>>

\* walletClient.createWallet({userId, chainId, existingWalletAddress: null})
N_CreateWallet(r) ==
  /\ impl = "nest"
  /\ req[r].pc = "create"
  /\ LET chainType == getChainType(req[r].chain)
         called == [req[r] EXCEPT !.calls = @ + 1,
                                  !.sdkParams = createWalletAccountParams(chainType)]
     IN  \/ /\ ProviderCreates(chainType)
            /\ provider' = [provider EXCEPT ![chainType] = ProviderAddress(chainType)]
            /\ req' = [req EXCEPT ![r] =
                         [called EXCEPT !.pc = "persist",
                                        !.wallet = ProviderAddress(chainType)]]
            /\ UNCHANGED faults
         \/ /\ \E e \in ProviderRejections(chainType) :
                 req' = [req EXCEPT ![r] =
                           N_InnerCatch([called EXCEPT !.rawType = RawType[e],
                                                       !.payload = e.address],
                                        N_Thrown[e])]
            /\ UNCHANGED <<provider, faults>>
         \/ /\ faults < MaxFaults
            /\ faults' = faults + 1
            /\ \E e \in TransientErrors :
                 req' = [req EXCEPT ![r] =
                           N_InnerCatch([called EXCEPT !.rawType = RawType[e],
                                                       !.payload = e.address],
                                        N_Thrown[e])]
            /\ UNCHANGED provider
  /\ UNCHANGED <<op, auth, retry, cls, otherVars>>
  /\ UNCHANGED <<impl, keyShares>>

\* encryptionService.encrypt(JSON.stringify(shares)) and the upsert
N_Persist(r) ==
  /\ impl = "nest"
  /\ req[r].pc = "persist"
  /\ LET s == req[r]
         network == getDynamicNetworkId(s.chain)
     IN  \/ /\ keyShares' = Upsert(keyShares,
                              KeyShareRow(s.wallet, network,
                                          encrypt(ProviderShares(s.wallet))))
            /\ req' = [req EXCEPT ![r] =
                         Finish([s EXCEPT !.writes = @ + 1],
                                NewWalletResponse(s.wallet, network))]
            /\ UNCHANGED faults
         \/ /\ faults < MaxFaults
            /\ faults' = faults + 1
            /\ req' = [req EXCEPT ![r] = N_InnerCatch(s, EncryptionError)]
            /\ UNCHANGED keyShares
  /\ UNCHANGED <<op, auth, retry, cls, otherVars>>
  /\ UNCHANGED <<impl, provider>>

\* a re-query of the table during recovery: a found wallet ends the request
\* with that wallet, otherwise the request goes on as `missing`
RequeryOutcomes(s, missing) ==
  LET network == getDynamicNetworkId(s.chain)
      found == FindWallets(keyShares, network)
  IN  IF found # {}
        THEN {Finish(s, RecoveredResponse(w.address, network)) : w \in found}
        ELSE {missing}

\* inner catch: getUserWallets(userId).find(network)
N_InnerRequery(r) ==
  /\ impl = "nest"
  /\ req[r].pc = "innerRequery"
  /\ \E next \in RequeryOutcomes(req[r], [req[r] EXCEPT !.pc = "innerFallback"]) :
       req' = [req EXCEPT ![r] = next]
  /\ UNCHANGED <<op, auth, retry, cls, otherVars>>
  /\ UNCHANGED <<impl, keyShares, provider, faults>>

\* inner catch: select from key_shares where network = ... limit 1;
\* nothing found: the original error is thrown again to the outer catch
N_InnerFallback(r) ==
  /\ impl = "nest"
  /\ req[r].pc = "innerFallback"
  /\ \E next \in RequeryOutcomes(req[r], N_OuterCatch(req[r], req[r].error)) :
       req' = [req EXCEPT ![r] = next]
  /\ UNCHANGED <<op, auth, retry, cls, otherVars>>
  /\ UNCHANGED <<impl, keyShares, provider, faults>>

\* outer catch: getUserWallets(userId).find(network)
N_OuterRequery(r) ==
  /\ impl = "nest"
  /\ req[r].pc = "outerRequery"
  /\ \E next \in RequeryOutcomes(req[r], [req[r] EXCEPT !.pc = "outerFallback"]) :
       req' = [req EXCEPT ![r] = next]
  /\ UNCHANGED <<op, auth, retry, cls, otherVars>>
  /\ UNCHANGED <<impl, keyShares, provider, faults>>

\* outer catch: select from key_shares where network = ... limit 1;
\* nothing found: the error is thrown to the caller
N_OuterFallback(r) ==
  /\ impl = "nest"
  /\ req[r].pc = "outerFallback"
  /\ \E next \in RequeryOutcomes(req[r], Finish(req[r], Thrown(req[r].error))) :
       req' = [req EXCEPT ![r] = next]
  /\ UNCHANGED <<op, auth, retry, cls, otherVars>>
  /\ UNCHANGED <<impl, keyShares, provider, faults>>

Next ==
  \/ \E r \in Requests, t \in ChainTypes : E_ExistenceCheck(r, t)
  \/ \E r \in Requests : E_CreateWallet(r)
  \/ \E r \in Requests : E_Persist(r)
  \/ \E r \in Requests : E_FinalCheck(r)
  \/ \E r \in Requests, c \in NestChainIds : N_ExistenceCheck(r, c)
  \/ \E r \in Requests : N_CreateWallet(r)
  \/ \E r \in Requests : N_Persist(r)
  \/ \E r \in Requests : N_InnerRequery(r)
  \/ \E r \in Requests : N_InnerFallback(r)
  \/ \E r \in Requests : N_OuterRequery(r)
  \/ \E r \in Requests : N_OuterFallback(r)

Spec == Init /\ [][Next]_vars

(***************************************************************************)
(* NestJS service: the wallet list and the operations on one wallet        *)
(* (getUserWallets, getBalance, signMessage, sendTransaction).  One        *)
(* operation runs at a time; each await is a step.                         *)
(***************************************************************************)
\* the id of the "non-existent wallet" requests of the e2e tests
NoSuchWalletId == "00000000-0000-0000-0000-000000000000"

OpKinds == {"list", "balance", "sign", "send"}

\* the authenticated user who makes every createWallet request of the model
RequestUserId == "user-1"

\* every wallet id the service can derive, and the unknown one
AllWalletIds ==
  {generateWalletId(ProviderAddress(getChainType(n)), getDynamicNetworkId(n))
     : n \in DOMAIN ChainRegistry} \cup {NoSuchWalletId}

\* wallet ids a client can ask for: the ids it was given, and the unknown one
OpWalletIds ==
  {req[r].response.id : r \in {q \in Requests : req[q].response.kind = "ok"}}
    \cup {NoSuchWalletId}

\* variant: the scan takes any row when the id is not compared
getWalletInfoById_AnyRow(table, walletId) == table

\* getWalletInfoById: the rows of key_shares whose derived id is walletId
getWalletInfoById(table, walletId) ==
  {k \in table : generateWalletId(k.address, k.chain) = walletId}

\* getUserWallets(userId): the ids of every row
getUserWallets(table) == {WalletOf(k).id : k \in table}

\* the operation ends with an HTTP status; its locals are gone
OpDone(o, status) ==
  [o EXCEPT !.pc = "done", !.status = status, !.address = NoAddr, !.network = ""]

\* getUserWallets, or the first await of getBalance / signMessage /
\* sendTransaction: getWalletInfoById, NotFoundException when it is null
Op_Lookup(kind, walletId, userId) ==
  /\ impl = "nest"
  /\ op.pc \in {"idle", "done"}
  /\ walletId \in OpWalletIds
  /\ LET started == [IdleOp EXCEPT !.kind = kind, !.walletId = walletId,
                                   !.userId = userId]
         infos == getWalletInfoById(keyShares, walletId)
     IN  IF kind = "list"
           THEN op' = OpDone([started EXCEPT !.walletId = "",
                                             !.ids = getUserWallets(keyShares)], 200)
         ELSE IF infos = {}
           THEN op' = OpDone(started, 404)
         ELSE \E k \in infos :
                op' = [started EXCEPT !.pc = IF kind = "balance" THEN "call" ELSE "select",
                                      !.address = k.address, !.network = k.chain]
  /\ UNCHANGED <<otherVars, impl, keyShares, provider, req, faults, auth, retry, cls>>

\* variant: the recipient address is not validated
Op_SelectKeyShare_NoValidation(validRecipient) ==
  /\ impl = "nest"
  /\ op.pc = "select"
  /\ LET rows == {k \in keyShares : k.address = op.address /\ k.chain = op.network}
         sent == [op EXCEPT !.to = IF validRecipient THEN "valid" ELSE "invalid"]
     IN  IF rows = {} THEN op' = OpDone(op, 404)
         ELSE IF op.kind # "send" THEN op' = [op EXCEPT !.pc = "decrypt"]
         ELSE op' = [sent EXCEPT !.pc = "decrypt"]
  /\ UNCHANGED <<otherVars, impl, keyShares, provider, req, faults, auth, retry, cls>>

\* signMessage / sendTransaction: select the key shares of (address, network),
\* NotFoundException when there is none; sendTransaction then validates the
\* recipient address `to` of the request (BadRequestException)
Op_SelectKeyShare(validRecipient) ==
  /\ impl = "nest"
  /\ op.pc = "select"
  /\ LET rows == {k \in keyShares : k.address = op.address /\ k.chain = op.network}
         sent == [op EXCEPT !.to = IF validRecipient THEN "valid" ELSE "invalid"]
     IN  IF rows = {} THEN op' = OpDone(op, 404)
         ELSE IF op.kind # "send" THEN op' = [op EXCEPT !.pc = "decrypt"]
         ELSE IF ~validRecipient THEN op' = OpDone(sent, 400)
         ELSE op' = [sent EXCEPT !.pc = "decrypt"]
  /\ UNCHANGED <<otherVars, impl, keyShares, provider, req, faults, auth, retry, cls>>

\* variant: a failed decryption is tried again
Op_Decrypt_Retry ==
  /\ impl = "nest"
  /\ op.pc = "decrypt"
  /\ \/ op' = [op EXCEPT !.pc = "call", !.decrypts = @ + 1]
     \/ /\ op.decrypts < 2
        /\ op' = [op EXCEPT !.decrypts = @ + 1]
  /\ UNCHANGED <<otherVars, impl, keyShares, provider, req, faults, auth, retry, cls>>

\* encryptionService.decrypt(keyShare.encryptedKeyShares); a failure is not
\* caught by the service (500)
Op_Decrypt ==
  /\ impl = "nest"
  /\ op.pc = "decrypt"
  /\ \/ op' = [op EXCEPT !.pc = "call", !.decrypts = @ + 1]
     \/ op' = OpDone([op EXCEPT !.decrypts = @ + 1], 500)
  /\ UNCHANGED <<otherVars, impl, keyShares, provider, req, faults, auth, retry, cls>>

\* status of the exception a failed sign / send call ends with, tabulated
Op_ThrownStatus == [e \in TransientErrors |-> handleDynamicSDKError(e, NoAddr).status]

\* walletClient.getBalance (RPC) / signMessage / sendTransaction (custody
\* provider); sign and send failures go through handleDynamicSDKError
Op_ClientCall ==
  /\ impl = "nest"
  /\ op.pc = "call"
  /\ \/ op' = OpDone([op EXCEPT !.calls = @ + 1], 200)
     \/ \E e \in TransientErrors :
          op' = OpDone([op EXCEPT !.calls = @ + 1],
                       IF op.kind = "balance" THEN 500 ELSE Op_ThrownStatus[e])
  /\ UNCHANGED <<otherVars, impl, keyShares, provider, req, faults, auth, retry, cls>>

\* the provider's transient failures during creation are explored under Spec;
\* here the budget of injected failures is used up from the start
OpsInit ==
  /\ impl = "nest"
  /\ keyShares = {}
  /\ provider = [t \in ChainTypes |-> NoAddr]
  /\ req = [r \in Requests |-> IdleRequest]
  /\ faults = MaxFaults
  /\ op = IdleOp
  /\ auth = IdleAuth
  /\ retry = IdleRetry
  /\ cls = IdleCls
  /\ lastUpsert = NoUpsert
  /\ ident = IdleIdent
  /\ boot = IdleBoot
  /\ sani = IdleSani
  /\ call = IdleCall
  /\ rlconf = IdleRlconf
  /\ send = IdleSend

OpsNext ==
  \/ \E r \in Requests, c \in NestChainIds : N_ExistenceCheck(r, c)
  \/ \E r \in Requests : N_CreateWallet(r)
  \/ \E r \in Requests : N_Persist(r)
  \/ \E r \in Requests : N_InnerRequery(r)
  \/ \E r \in Requests : N_InnerFallback(r)
  \/ \E r \in Requests : N_OuterRequery(r)
  \/ \E r \in Requests : N_OuterFallback(r)
  \/ \E kind \in OpKinds, walletId \in AllWalletIds :
       Op_Lookup(kind, walletId, RequestUserId)
  \/ \E validRecipient \in BOOLEAN : Op_SelectKeyShare(validRecipient)
  \/ Op_Decrypt
  \/ Op_ClientCall

OpsSpec == OpsInit /\ [][OpsNext]_vars

\* the same service with the wallet operations requested by any of two users
AccessNext ==
  \/ \E r \in Requests, c \in NestChainIds : N_ExistenceCheck(r, c)
  \/ \E r \in Requests : N_CreateWallet(r)
  \/ \E r \in Requests : N_Persist(r)
  \/ \E r \in Requests : N_InnerRequery(r)
  \/ \E r \in Requests : N_InnerFallback(r)
  \/ \E r \in Requests : N_OuterRequery(r)
  \/ \E r \in Requests : N_OuterFallback(r)
  \/ \E kind \in OpKinds, walletId \in AllWalletIds, userId \in {"user-1", "user-2"} :
       Op_Lookup(kind, walletId, userId)
  \/ \E validRecipient \in BOOLEAN : Op_SelectKeyShare(validRecipient)
  \/ Op_Decrypt
  \/ Op_ClientCall

AccessSpec == OpsInit /\ [][AccessNext]_vars

(***************************************************************************)
(* The custody clients: EvmWalletClient.getDynamicEvmClient and            *)
(* SolanaWalletClient.getDynamicSvmClient.  Each caller runs the getter    *)
(* once and then uses the handle it was given.  A client object is named   *)
(* by the caller that constructed it; 0 is null.                           *)
(***************************************************************************)
\* failures of authenticateApiToken
AuthErrors ==
  {SdkError("Invalid API token", "authenticateApiToken", 401, NoAddr),
   SdkError("Network timeout", "authenticateApiToken", 0, NoAddr),
   SdkError("Internal error", "authenticateApiToken", 500, NoAddr)}

\* the catch block of the getter: status of the exception it throws
InitializationError(error) ==
  LET lowerMessage == toLowerCase(error.message)
      errorStatus == error.status
      has(p) == includes(lowerMessage, p)
  IN  IF isHttpException(error) THEN error.status
      ELSE IF \/ errorStatus = 401
              \/ has("authentication") \/ has("token") \/ has("unauthorized")
              \/ has("auth") \/ has("credential") \/ has("permission denied")
        THEN 401
      ELSE IF \/ errorStatus = 429
              \/ has("status code 429") \/ has("rate limit") \/ has("throttle")
              \/ has("too many") \/ has("quota") \/ has("limit exceeded")
        THEN 429
      ELSE IF \/ has("network") \/ has("timeout") \/ has("connection")
              \/ has("econnrefused") \/ has("enotfound") \/ has("econnreset")
              \/ has("socket") \/ has("dns")
        THEN 502
      ELSE IF \/ has("not found") \/ has("does not exist") \/ has("missing")
              \/ has("not available")
        THEN 400
      ELSE IF has("forbidden") \/ has("access denied") \/ has("not allowed")
        THEN 401
      ELSE 500

\* tabulated once per error
InitializationStatus == [e \in AuthErrors |-> InitializationError(e)]

\* variant: one handle shared by both client classes
CacheField_Shared(family) == "evm"

\* the field that caches the family's client: dynamicEvmClient of the
\* EvmWalletClient, dynamicSvmClient of the SolanaWalletClient
CacheField(family) == family

\* the family a client object was constructed for
ClientFamily(client) == auth.caller[client].family

\* if (this.dynamicEvmClient) return this.dynamicEvmClient; otherwise the
\* configuration is read and the import of the SDK module is awaited
getDynamicClient_Enter(c, family) ==
  /\ auth.caller[c].pc = "idle"
  /\ LET cached == auth.cache[CacheField(family)]
     IN  auth' = [auth EXCEPT !.caller[c] =
                    IF cached # 0
                      THEN [@ EXCEPT !.pc = "done", !.family = family, !.handle = cached]
                      ELSE [@ EXCEPT !.pc = "importing", !.family = family]]
  /\ UNCHANGED <<otherVars, impl, keyShares, provider, req, faults, op, retry, cls>>

\* the import resolved: the field is assigned a new client and
\* authenticateApiToken is called on it
getDynamicClient_Construct(c) ==
  /\ auth.caller[c].pc = "importing"
  /\ LET family == auth.caller[c].family
     IN  auth' = [auth EXCEPT !.cache[CacheField(family)] = c,
                              !.authCalls[family] = @ + 1,
                              !.caller[c].pc = "authenticating"]
  /\ UNCHANGED <<otherVars, impl, keyShares, provider, req, faults, op, retry, cls>>

\* authenticateApiToken resolved: return this.dynamicEvmClient
getDynamicClient_Authenticated(c) ==
  /\ auth.caller[c].pc = "authenticating"
  /\ LET family == auth.caller[c].family
     IN  auth' = [auth EXCEPT !.authenticated = @ \cup {c},
                              !.caller[c].pc = "done",
                              !.caller[c].handle = auth.cache[CacheField(family)]]
  /\ UNCHANGED <<otherVars, impl, keyShares, provider, req, faults, op, retry, cls>>

\* authenticateApiToken rejected: the catch block throws; the field keeps
\* the client that was assigned
getDynamicClient_AuthFailed(c, error) ==
  /\ auth.caller[c].pc = "authenticating"
  /\ faults < MaxFaults
  /\ faults' = faults + 1
  /\ LET family == auth.caller[c].family
     IN  auth' = [auth EXCEPT !.failed[family] = TRUE,
                              !.caller[c].pc = "done",
                              !.caller[c].status = InitializationStatus[error]]
  /\ UNCHANGED <<otherVars, impl, keyShares, provider, req, op, retry, cls>>

\* the caller uses its handle for a provider operation; the provider serves
\* a client only after its authenticateApiToken succeeded
UseClient(c) ==
  /\ auth.caller[c].pc = "done"
  /\ auth.caller[c].handle # 0
  /\ auth.caller[c].used = "none"
  /\ auth' = [auth EXCEPT !.caller[c].used =
                IF auth.caller[c].handle \in auth.authenticated
                  THEN "served" ELSE "rejected"]
  /\ UNCHANGED <<otherVars, impl, keyShares, provider, req, faults, op, retry, cls>>

AuthInit ==
  /\ impl = "nest"
  /\ keyShares = {}
  /\ provider = [t \in ChainTypes |-> NoAddr]
  /\ req = [r \in Requests |-> IdleRequest]
  /\ faults = 0
  /\ op = IdleOp
  /\ auth = IdleAuth
  /\ retry = IdleRetry
  /\ cls = IdleCls
  /\ lastUpsert = NoUpsert
  /\ ident = IdleIdent
  /\ boot = IdleBoot
  /\ sani = IdleSani
  /\ call = IdleCall
  /\ rlconf = IdleRlconf
  /\ send = IdleSend

AuthNext ==
  \/ \E c \in Requests, family \in ChainTypes : getDynamicClient_Enter(c, family)
  \/ \E c \in Requests : getDynamicClient_Construct(c)
  \/ \E c \in Requests : getDynamicClient_Authenticated(c)
  \/ \E c \in Requests, error \in AuthErrors : getDynamicClient_AuthFailed(c, error)
  \/ \E c \in Requests : UseClient(c)

AuthSpec == AuthInit /\ [][AuthNext]_vars

(***************************************************************************)
(* RateLimitService.retryWithBackoff: each caller wraps one provider call. *)
(***************************************************************************)
\* RateLimitConfigSchema: defaults
maxRetries == 5

baseDelayMs == 1000

maxDelayMs == 30000

jitterMaxMs == 1000

\* the errors the wrapped call can reject with
RetryErrors ==
  TransientErrors \cup
    {SdkError("Rate limit exceeded", "createWalletAccount", 0, NoAddr),
     SdkError("Request failed with status code 429", "createWalletAccount", 0, NoAddr)}

isRateLimitError(error) ==
  IF ~error.isError THEN FALSE
  ELSE IF error.status = 429 THEN TRUE
  ELSE LET message == getErrorMessage(error)
           lowerMessage == toLowerCase(message)
       IN  IF message = "" THEN FALSE
           ELSE \/ includes(lowerMessage, "rate limit")
                \/ includes(lowerMessage, "429")
                \/ includes(lowerMessage, "too many requests")
                \/ includes(lowerMessage, "quota exceeded")

\* tabulated once per error
IsRateLimit == [e \in RetryErrors |-> isRateLimitError(e)]

\* variant: the rejection is wrapped in a new exception
retryWithBackoff_Thrown_Wrapped(error) ==
  NewHttpException("InternalServerErrorException", 500, error.message, NoAddr)

\* return await fn(): a rejection of fn leaves the method as it is
retryWithBackoff_Thrown(error) == error

\* retryWithBackoff calls fn
retryWithBackoff_Call(c) ==
  /\ retry[c].pc = "idle"
  /\ retry' = [retry EXCEPT ![c].pc = "awaiting", ![c].attempts = @ + 1]
  /\ UNCHANGED <<otherVars, impl, keyShares, provider, req, faults, op, auth, cls>>

\* fn resolved: its value is returned
retryWithBackoff_Resolve(c) ==
  /\ retry[c].pc = "awaiting"
  /\ retry' = [retry EXCEPT ![c].pc = "done", ![c].result = "returned"]
  /\ UNCHANGED <<otherVars, impl, keyShares, provider, req, faults, op, auth, cls>>

\* fn rejected, with or without a retry-after header on the rejection: the
\* method has no catch and no loop, it reads no header and sleeps for no
\* delay (waited stays empty)
retryWithBackoff_Reject(c, error, retryAfter) ==
  /\ retry[c].pc = "awaiting"
  /\ retry' = [retry EXCEPT ![c].pc = "done", ![c].failure = error,
                            ![c].result = "thrown",
                            ![c].thrown = retryWithBackoff_Thrown(error),
                            ![c].retryAfter = retryAfter]
  /\ UNCHANGED <<otherVars, impl, keyShares, provider, req, faults, op, auth, cls>>

RetryInit ==
  /\ impl = "nest"
  /\ keyShares = {}
  /\ provider = [t \in ChainTypes |-> NoAddr]
  /\ req = [r \in Requests |-> IdleRequest]
  /\ faults = 0
  /\ op = IdleOp
  /\ auth = IdleAuth
  /\ retry = IdleRetry
  /\ cls = IdleCls
  /\ lastUpsert = NoUpsert
  /\ ident = IdleIdent
  /\ boot = IdleBoot
  /\ sani = IdleSani
  /\ call = IdleCall
  /\ rlconf = IdleRlconf
  /\ send = IdleSend

RetryNext ==
  \/ \E c \in Requests : retryWithBackoff_Call(c)
  \/ \E c \in Requests : retryWithBackoff_Resolve(c)
  \/ \E c \in Requests, error \in RetryErrors, retryAfter \in {"", "2"} :
       retryWithBackoff_Reject(c, error, retryAfter)

RetrySpec == RetryInit /\ [][RetryNext]_vars

(***************************************************************************)
(* classifyDynamicSDKError applied to errors of the provider.  An input is *)
(* built from the kinds it is to show: one phrase per kind in the message  *)
(* (later kinds first), the already-exists phrase in the message, the      *)
(* nested error or the cause, and a status field.  `shown` records the     *)
(* kinds the error was built to show.                                      *)
(***************************************************************************)
\* the kinds in the order of the checks of classifyDynamicSDKError
KindOrder ==
  <<"multiple_wallets", "authentication", "rate_limit", "network", "not_found",
    "forbidden">>

\* one phrase of each kind's check
KindPhrase ==
  [multiple_wallets |-> "Wallet already exists", authentication |-> "Unauthorized",
   rate_limit |-> "Rate limit", network |-> "Timeout", not_found |-> "Not found",
   forbidden |-> "Forbidden"]

MessageKinds == {"authentication", "rate_limit", "network", "not_found", "forbidden"}

\* where the provider put the already-exists phrase; "creating" is the
\* creation failure that names no reason
PhrasePlaces == {"none", "message", "nested", "cause", "stack", "creating"}

ClsStatuses == {0, 400, 429}

ClsPart(kinds, k) == IF k \in kinds THEN KindPhrase[k] \o "; " ELSE ""

ClsMessage(kinds, place) ==
  (IF place = "creating" THEN "Error creating evm wallet account: "
                         ELSE "Request failed: ")
    \o ClsPart(kinds, "forbidden") \o ClsPart(kinds, "not_found")
    \o ClsPart(kinds, "network") \o ClsPart(kinds, "rate_limit")
    \o ClsPart(kinds, "authentication")
    \o (IF place = "message" THEN KindPhrase["multiple_wallets"] ELSE "")

ClsError(kinds, place, status) ==
  [SdkError(ClsMessage(kinds, place), "createWalletAccount", status, NoAddr)
     EXCEPT !.nested = IF place = "nested" THEN KindPhrase["multiple_wallets"] ELSE "",
            !.cause = IF place = "cause" THEN KindPhrase["multiple_wallets"] ELSE "",
            !.stack = IF place = "stack"
                        THEN @ \o " Caused by: " \o KindPhrase["multiple_wallets"]
                        ELSE @]

\* the classifier takes status 400 and a creation failure that names no
\* reason as signs of an existing wallet, and status 429 as a rate limit
ClsShown(kinds, place, status) ==
  kinds \cup (IF place # "none" \/ status = 400 THEN {"multiple_wallets"} ELSE {})
        \cup (IF status = 429 THEN {"rate_limit"} ELSE {})

\* handleDynamicSDKError: an HTTP exception is rethrown before anything is
\* classified; otherwise the service classifies the message
\* extractDynamicSDKErrorMessage found and throws the exception of that kind
classify_Apply ==
  /\ cls.thrown = NoError
  /\ LET errorMessage == extractDynamicSDKErrorMessage(cls.input)
         classified == classifyDynamicSDKError(cls.input, errorMessage)
     IN  IF isHttpException(cls.input)
           THEN cls' = [cls EXCEPT !.thrown = handleDynamicSDKError(cls.input, NoAddr)]
           ELSE cls' = [cls EXCEPT !.type = classified.type,
                                   !.statusCode = classified.statusCode,
                                   !.thrown = handleDynamicSDKError(cls.input, NoAddr)]
  /\ UNCHANGED <<otherVars, impl, keyShares, provider, req, faults, op, auth, retry>>

ClassifyInit ==
  /\ impl = "nest"
  /\ keyShares = {}
  /\ provider = [t \in ChainTypes |-> NoAddr]
  /\ req = [r \in Requests |-> IdleRequest]
  /\ faults = 0
  /\ op = IdleOp
  /\ auth = IdleAuth
  /\ retry = IdleRetry
  /\ \/ \E kinds \in SUBSET MessageKinds, place \in PhrasePlaces, status \in ClsStatuses :
          cls = [IdleCls EXCEPT !.input = ClsError(kinds, place, status),
                                !.shown = ClsShown(kinds, place, status)]
     \* exceptions the service threw itself and that reach the handler
     \/ \E h \in {NewHttpException("NotFoundException", 404, "Wallet not found", NoAddr),
                   NewHttpException("BadRequestException", 400, "Invalid address", NoAddr),
                   NewHttpException("HttpException", 429, "Too many requests", NoAddr)} :
          cls = [IdleCls EXCEPT !.input = h]
  /\ lastUpsert = NoUpsert
  /\ ident = IdleIdent
  /\ boot = IdleBoot
  /\ sani = IdleSani
  /\ call = IdleCall
  /\ rlconf = IdleRlconf
  /\ send = IdleSend

ClassifyNext == classify_Apply

ClassifySpec == ClassifyInit /\ [][ClassifyNext]_vars

(***************************************************************************)
(* The key_shares table under upserts: the insert ... onConflictDoUpdate   *)
(* statement of the services applied to any sequence of rows.              *)
(***************************************************************************)
SameKey(a, b) == a.address = b.address /\ a.chain = b.chain

Store_Upsert(address, chainType, encryptedKeyShares) ==
  LET row == KeyShareRow(address, chainType, encryptedKeyShares)
  IN  /\ keyShares' = Upsert(keyShares, row)
      /\ lastUpsert' = [address |-> address, chain |-> chainType,
                        encryptedKeyShares |-> encryptedKeyShares,
                        conflict |-> \E s \in keyShares : SameKey(s, row)]
      /\ UNCHANGED <<impl, provider, req, faults, op, auth, retry, cls, ident, boot, sani, call, rlconf, send>>

StoreInit ==
  /\ impl = "elysia"
  /\ keyShares = {}
  /\ provider = [t \in ChainTypes |-> NoAddr]
  /\ req = [r \in Requests |-> IdleRequest]
  /\ faults = 0
  /\ op = IdleOp
  /\ auth = IdleAuth
  /\ retry = IdleRetry
  /\ cls = IdleCls
  /\ lastUpsert = NoUpsert
  /\ ident = IdleIdent
  /\ boot = IdleBoot
  /\ sani = IdleSani
  /\ call = IdleCall
  /\ rlconf = IdleRlconf
  /\ send = IdleSend

\* encryption is randomised: two ciphertexts of a wallet's shares differ
StoreNext ==
  \E address \in {ProviderAddress(t) : t \in ChainTypes}, chainType \in ChainTypes,
     encryptedKeyShares \in {encrypt("shares-1"), encrypt("shares-2")} :
    Store_Upsert(address, chainType, encryptedKeyShares)

StoreSpec == StoreInit /\ [][StoreNext]_vars

(***************************************************************************)
(* generateWalletId in two processes: each derives the id of one           *)
(* (address, chain) pair.  sha256 and its cut to a uuid-like string are    *)
(* taken as one-to-one on the input string.                                *)
(***************************************************************************)
\* addresses, and as second argument the chainType (Elysia) or the Dynamic
\* network id (NestJS)
IdentPairs ==
  ({ProviderAddress(t) : t \in ChainTypes} \cup {"0xB0b"})
    \X (ChainTypes \cup {getDynamicNetworkId(n) : n \in DOMAIN ChainRegistry})

generateWalletId_Apply(p) ==
  /\ ident.id[p] = ""
  /\ ident' = [ident EXCEPT !.id[p] = generateWalletId(ident.pair[p][1], ident.pair[p][2])]
  /\ UNCHANGED <<impl, keyShares, provider, req, faults, op, auth, retry, cls, lastUpsert, boot, sani, call, rlconf, send>>

IdentInit ==
  /\ impl = "elysia"
  /\ keyShares = {}
  /\ provider = [t \in ChainTypes |-> NoAddr]
  /\ req = [r \in Requests |-> IdleRequest]
  /\ faults = 0
  /\ op = IdleOp
  /\ auth = IdleAuth
  /\ retry = IdleRetry
  /\ cls = IdleCls
  /\ lastUpsert = NoUpsert
  /\ boot = IdleBoot
  /\ sani = IdleSani
  /\ call = IdleCall
  /\ rlconf = IdleRlconf
  /\ send = IdleSend
  /\ \E a \in IdentPairs, b \in IdentPairs :
       ident = [pair |-> <<a, b>>, id |-> <<"", "">>]

IdentNext == \E p \in {1, 2} : generateWalletId_Apply(p)

IdentSpec == IdentInit /\ [][IdentNext]_vars

(***************************************************************************)
(* Process start: the configuration factory reads the environment; the     *)
(* process serves requests once the factory has returned.  The source      *)
(* holds two versions of the factory.  An environment variable is          *)
(* modelled by what the factory reads of it: whether it is set, and for    *)
(* ENCRYPTION_KEY its length (0 = unset or empty).                         *)
(***************************************************************************)
MinKeyLength == 32

Environments ==
  [DYNAMIC_ENVIRONMENT_ID : BOOLEAN, DYNAMIC_API_TOKEN : BOOLEAN,
   ENCRYPTION_KEY : {0, 16, 31, 32, 64}]

\* the message of the error the factory throws, "" when it returns.  The
\* "plain" version has no checks: every missing variable defaults to ''.
configuration(version, env) ==
  IF version = "plain" THEN ""
  ELSE IF ~env.DYNAMIC_ENVIRONMENT_ID
  THEN "DYNAMIC_ENVIRONMENT_ID environment variable is required"
  ELSE IF ~env.DYNAMIC_API_TOKEN
  THEN "DYNAMIC_API_TOKEN environment variable is required"
  ELSE IF env.ENCRYPTION_KEY = 0 \/ env.ENCRYPTION_KEY < MinKeyLength
  THEN "ENCRYPTION_KEY environment variable is required and must be at least 32 characters"
  ELSE ""

\* the factory runs once while the application is bootstrapped
configuration_Load ==
  /\ boot.state = "starting"
  /\ LET error == configuration(boot.version, boot.env) IN
       boot' = [boot EXCEPT !.state = IF error = "" THEN "running" ELSE "rejected",
                            !.error = error]
  /\ UNCHANGED <<impl, keyShares, provider, req, faults, op, auth, retry, cls, lastUpsert, ident, sani, call, rlconf, send>>

\* a started process serves wallet requests
Boot_Serve(kind) ==
  /\ boot.state = "running"
  /\ kind \notin boot.served
  /\ boot' = [boot EXCEPT !.served = @ \cup {kind}]
  /\ UNCHANGED <<impl, keyShares, provider, req, faults, op, auth, retry, cls, lastUpsert, ident, sani, call, rlconf, send>>

BootInit ==
  /\ impl = "nest"
  /\ keyShares = {}
  /\ provider = [t \in ChainTypes |-> NoAddr]
  /\ req = [r \in Requests |-> IdleRequest]
  /\ faults = 0
  /\ op = IdleOp
  /\ auth = IdleAuth
  /\ retry = IdleRetry
  /\ cls = IdleCls
  /\ lastUpsert = NoUpsert
  /\ ident = IdleIdent
  /\ sani = IdleSani
  /\ call = IdleCall
  /\ rlconf = IdleRlconf
  /\ send = IdleSend
  /\ \E version \in {"plain", "validating"}, env \in Environments :
       boot = [version |-> version, env |-> env, state |-> "starting",
               error |-> "", served |-> {}]

BootNext ==
  \/ configuration_Load
  \/ \E kind \in OpKinds : Boot_Serve(kind)

BootSpec == BootInit /\ [][BootNext]_vars

(***************************************************************************)
(* Error messages on their way to the caller: handleDynamicSDKError builds *)
(* the response message from the upstream error, sanitizeErrorMessage      *)
(* rewrites a message in production mode.                                  *)
(***************************************************************************)
\* texts an upstream error can carry
UpstreamTexts ==
  {"Request failed",
   "Invalid DYNAMIC_API_TOKEN supplied",
   "connect ECONNREFUSED DATABASE_URL=postgres://db/vencura",
   "Cannot decrypt with ENCRYPTION_KEY",
   "Signing failed for " \o ProviderShares(ProviderAddress("evm")),
   "TypeError: fetch failed at Object.request (/app/node_modules/sdk/index.js:10:5)"}

\* the upstream error carries its text in error.message or in error.error
UpstreamError(text, place, status) ==
  [SdkError(IF place = "message" THEN text ELSE "Request failed", "signMessage",
            status, NoAddr)
     EXCEPT !.nested = IF place = "nested" THEN text ELSE ""]

sanitizeErrorMessage(message, isProduction) ==
  IF ~isProduction THEN message
  ELSE IF \/ includes(message, "ENCRYPTION_KEY")
          \/ includes(message, "DYNAMIC_API_TOKEN")
          \/ includes(message, "DATABASE_URL")
          \/ includes(message, "SENTRY_DSN")
          \/ \E p \in {"password", "secret", "key", "token"} :
                includes(toLowerCase(message), p)
    THEN "Configuration error"
  ELSE message

\* the exception handleDynamicSDKError throws carries the response message
handleDynamicSDKError_Throw ==
  /\ sani.state = "failed"
  /\ sani' = [sani EXCEPT !.state = "thrown",
                          !.message = handleDynamicSDKError(sani.input, NoAddr).message]
  /\ UNCHANGED <<impl, keyShares, provider, req, faults, op, auth, retry, cls, lastUpsert, ident, boot, call, rlconf, send>>

sanitizeErrorMessage_Apply ==
  /\ sani.state = "thrown"
  /\ sani' = [sani EXCEPT !.state = "sanitized",
                          !.sanitized = sanitizeErrorMessage(sani.message, sani.isProduction)]
  /\ UNCHANGED <<impl, keyShares, provider, req, faults, op, auth, retry, cls, lastUpsert, ident, boot, call, rlconf, send>>

SaniInit ==
  /\ impl = "nest"
  /\ keyShares = {}
  /\ provider = [t \in ChainTypes |-> NoAddr]
  /\ req = [r \in Requests |-> IdleRequest]
  /\ faults = 0
  /\ op = IdleOp
  /\ auth = IdleAuth
  /\ retry = IdleRetry
  /\ cls = IdleCls
  /\ lastUpsert = NoUpsert
  /\ ident = IdleIdent
  /\ boot = IdleBoot
  /\ call = IdleCall
  /\ rlconf = IdleRlconf
  /\ send = IdleSend
  /\ \E text \in UpstreamTexts, place \in {"message", "nested"}, status \in {0, 500},
        isProduction \in BOOLEAN :
       sani = [input |-> UpstreamError(text, place, status),
               isProduction |-> isProduction, state |-> "failed",
               message |-> "", sanitized |-> ""]

SaniNext ==
  \/ handleDynamicSDKError_Throw
  \/ sanitizeErrorMessage_Apply

SaniSpec == SaniInit /\ [][SaniNext]_vars

(***************************************************************************)
(* Outbound calls.  A call is awaited until the remote side answers or,    *)
(* when the call site armed a timer, until the timer aborts it.  The only  *)
(* call site that arms one is the fetch of the provider's public key.      *)
(***************************************************************************)
\* fetchWithTimeout's default, and the value getPublicKey passes
defaultTimeoutMs == 5000

\* the awaited calls of the wallet clients and of AuthService.getPublicKey
CallSites ==
  {[op |-> "provision", chain |-> c, target |-> "provider"] : c \in ChainTypes}
    \cup {[op |-> "sign", chain |-> c, target |-> "provider"] : c \in ChainTypes}
    \cup {[op |-> "send", chain |-> c, target |-> g] :
             c \in ChainTypes, g \in {"provider", "rpc"}}
    \cup {[op |-> "balance", chain |-> c, target |-> "rpc"] : c \in ChainTypes}
    \cup {[op |-> "auth", chain |-> "", target |-> "provider"]}

Call_Start ==
  /\ call.state = "ready"
  /\ call' = [call EXCEPT !.state = "awaiting",
                          !.timer = IF call.timeoutMs > 0 THEN "armed" ELSE "none"]
  /\ UNCHANGED <<impl, keyShares, provider, req, faults, op, auth, retry, cls, lastUpsert, ident, boot, sani, rlconf, send>>

\* the remote side answers; fetchWithTimeout clears its timer
Remote_Respond ==
  /\ call.state = "awaiting"
  /\ call.outcome # "never"
  /\ call' = [call EXCEPT !.state = "settled",
                          !.timer = IF call.timer = "armed" THEN "cleared" ELSE @,
                          !.result = IF call.outcome = "ok" THEN "ok" ELSE "error",
                          !.message = IF call.outcome = "ok" THEN "" ELSE "read ECONNRESET"]
  /\ UNCHANGED <<impl, keyShares, provider, req, faults, op, auth, retry, cls, lastUpsert, ident, boot, sani, rlconf, send>>

\* setTimeout(() => controller.abort(), timeoutMs)
Timer_Fire ==
  /\ call.state = "awaiting"
  /\ call.timer = "armed"
  /\ call' = [call EXCEPT !.state = "settled", !.timer = "fired",
                          !.result = "error", !.message = "This operation was aborted"]
  /\ UNCHANGED <<impl, keyShares, provider, req, faults, op, auth, retry, cls, lastUpsert, ident, boot, sani, rlconf, send>>

\* classification of a failed call, tabulated once per message: the
\* rejection of a reset connection and the rejection of an aborted fetch
CallErrorType ==
  [m \in {"read ECONNRESET", "This operation was aborted"} |->
     LET error == SdkError(m, "call", 0, NoAddr)
     IN  classifyDynamicSDKError(error, extractDynamicSDKErrorMessage(error)).type]

\* the request completes: a failure of a wallet operation is classified
Call_Return ==
  /\ call.state = "settled"
  /\ call' = [call EXCEPT
                 !.state = "responded",
                 !.type = IF call.result = "error" /\ call.site.op # "auth"
                            THEN CallErrorType[call.message] ELSE ""]
  /\ UNCHANGED <<impl, keyShares, provider, req, faults, op, auth, retry, cls, lastUpsert, ident, boot, sani, rlconf, send>>

CallInit ==
  /\ impl = "nest"
  /\ keyShares = {}
  /\ provider = [t \in ChainTypes |-> NoAddr]
  /\ req = [r \in Requests |-> IdleRequest]
  /\ faults = 0
  /\ op = IdleOp
  /\ auth = IdleAuth
  /\ retry = IdleRetry
  /\ cls = IdleCls
  /\ lastUpsert = NoUpsert
  /\ ident = IdleIdent
  /\ boot = IdleBoot
  /\ sani = IdleSani
  /\ rlconf = IdleRlconf
  /\ send = IdleSend
  \* the remote side answers, fails or never responds; only the public-key
  \* fetch passes a timeout
  /\ \E site \in CallSites, outcome \in {"ok", "econnreset", "never"} :
       call = [IdleCall EXCEPT
                 !.site = site,
                 !.timeoutMs = IF site.op = "auth" THEN defaultTimeoutMs ELSE 0,
                 !.outcome = outcome, !.state = "ready"]

CallNext ==
  \/ Call_Start
  \/ Remote_Respond
  \/ Timer_Fire
  \/ Call_Return

\* the program's own steps and the timer are taken when they can be; the
\* remote side answers only when it is one that responds
CallFairSpec ==
  /\ CallInit /\ [][CallNext]_vars
  /\ WF_vars(Call_Start) /\ WF_vars(Remote_Respond)
  /\ WF_vars(Timer_Fire) /\ WF_vars(Call_Return)

(***************************************************************************)
(* RateLimitService.onModuleInit: maxRetries, baseDelayMs and maxDelayMs   *)
(* are taken from the configuration object or, when it has none, from the  *)
(* environment through parseInt, and parsed by RateLimitConfigSchema.  A   *)
(* JavaScript number is a record of its kind and its value in tenths       *)
(* (15 is 1.5); an unset environment variable is "".                       *)
(***************************************************************************)
\* parseInt(s, 10): optional sign, then the leading digits; NaN without one
parseInt(s) ==
  LET Digit == [c \in {"0", "1", "2", "3", "4", "5", "6", "7", "8", "9"} |->
                  CASE c = "0" -> 0 [] c = "1" -> 1 [] c = "2" -> 2 [] c = "3" -> 3
                    [] c = "4" -> 4 [] c = "5" -> 5 [] c = "6" -> 6 [] c = "7" -> 7
                    [] c = "8" -> 8 [] c = "9" -> 9]
      negative == Len(s) > 0 /\ SubSeq(s, 1, 1) = "-"
      first == IF negative THEN 2 ELSE 1
      IsDigit(i) == i <= Len(s) /\ SubSeq(s, i, i) \in DOMAIN Digit
      last == CHOOSE j \in (first - 1)..Len(s) :
                /\ \A i \in first..j : IsDigit(i)
                /\ ~IsDigit(j + 1)
      Value[j \in (first - 1)..Len(s)] ==
        IF j < first THEN 0 ELSE 10 * Value[j - 1] + Digit[SubSeq(s, j, j)]
  IN  IF last < first THEN [k |-> "nan", tenths |-> 0]
      ELSE [k |-> "number",
            tenths |-> 10 * (IF negative THEN 0 - Value[last] ELSE Value[last])]

\* z.number().int().positive().default(d) applied to one field: the parsed
\* value, 0 when the schema throws
RateLimitConfigSchema(value, default) ==
  IF value.k = "undefined" THEN default
  ELSE IF value.k = "number" /\ value.tenths % 10 = 0 /\ value.tenths > 0
    THEN value.tenths \div 10
  ELSE 0

onModuleInit ==
  /\ rlconf.state = "constructed"
  /\ LET raw == [f \in DOMAIN rlconf.supplied |->
                   IF rlconf.supplied[f].conf.k # "undefined" THEN rlconf.supplied[f].conf
                   ELSE IF rlconf.supplied[f].env # "" THEN parseInt(rlconf.supplied[f].env)
                   ELSE [k |-> "undefined", tenths |-> 0]]
         parsed == [maxRetries |-> RateLimitConfigSchema(raw.maxRetries, maxRetries),
                    baseDelayMs |-> RateLimitConfigSchema(raw.baseDelayMs, baseDelayMs),
                    maxDelayMs |-> RateLimitConfigSchema(raw.maxDelayMs, maxDelayMs)]
     IN  IF \E f \in DOMAIN parsed : parsed[f] = 0
           THEN rlconf' = [rlconf EXCEPT !.state = "failed"]
           ELSE rlconf' = [rlconf EXCEPT !.state = "ready", !.config = parsed]
  /\ UNCHANGED <<impl, keyShares, provider, req, faults, op, auth, retry, cls, lastUpsert, ident, boot, sani, call, send>>

\* the constructor parsed the defaults
RlconfInit ==
  /\ impl = "nest"
  /\ keyShares = {}
  /\ provider = [t \in ChainTypes |-> NoAddr]
  /\ req = [r \in Requests |-> IdleRequest]
  /\ faults = 0
  /\ op = IdleOp
  /\ auth = IdleAuth
  /\ retry = IdleRetry
  /\ cls = IdleCls
  /\ lastUpsert = NoUpsert
  /\ ident = IdleIdent
  /\ boot = IdleBoot
  /\ sani = IdleSani
  /\ call = IdleCall
  /\ send = IdleSend
  \* what is supplied for one field: the configuration object's value and
  \* the environment variable
  /\ LET SuppliedValues ==
           {[conf |-> [k |-> "undefined", tenths |-> 0], env |-> e] :
              e \in {"", "10", "0", "-5", "abc", "5.7", "12abc"}}
             \cup {[conf |-> [k |-> "number", tenths |-> n], env |-> e] :
                     n \in {30, 0, -10, 15}, e \in {"", "10"}}
     IN  \E a \in SuppliedValues, b \in SuppliedValues, c \in SuppliedValues :
           rlconf = [supplied |-> [maxRetries |-> a, baseDelayMs |-> b, maxDelayMs |-> c],
                     state |-> "constructed",
                     config |-> [maxRetries |-> maxRetries, baseDelayMs |-> baseDelayMs,
                                 maxDelayMs |-> maxDelayMs]]

RlconfNext == onModuleInit

RlconfSpec == RlconfInit /\ [][RlconfNext]_vars

(***************************************************************************)
(* SolanaWalletClient.sendTransaction: a native SOL transfer.  The call     *)
(* runs from one await to the next; `trace` lists what it has done so far.  *)
(* A rejected await, and a throw between awaits, reach the catch block,    *)
(* where handleDynamicSDKError throws.                                     *)
(***************************************************************************)
\* the call starts and awaits getDynamicSvmClient()
sendTransaction_Start(to, amount) ==
  /\ send.pc = "idle"
  /\ send' = [IdleSend EXCEPT !.pc = "getDynamicSvmClient", !.to = to, !.amount = amount]
  /\ UNCHANGED <<impl, keyShares, provider, req, faults, op, auth, retry, cls, lastUpsert, ident, boot, sani, call, rlconf>>

\* variant: the hash is returned as soon as the transaction is broadcast
sendTransaction_Resume_NoConfirm(error, value) ==
  /\ send.pc \notin {"idle", "done"}
  /\ LET thrown(status) == [send EXCEPT !.pc = "done", !.thrown = status]
         next(s, step) == [s EXCEPT !.pc = step, !.trace = Append(@, step)]
     IN  IF error # NoError
           THEN send' = thrown(Op_ThrownStatus[error])
         ELSE IF send.pc = "getDynamicSvmClient"
           THEN \* new PublicKey(to) throws for a string that is no public key
                IF send.to = "invalid"
                  THEN send' = thrown(handleDynamicSDKError(
                                        NewError("Invalid public key input"), NoAddr).status)
                  ELSE send' = next([send EXCEPT
                                       !.transaction = [fromPubkey |-> ProviderAddress("solana"),
                                                        toPubkey |-> send.to,
                                                        amount |-> send.amount,
                                                        recentBlockhash |-> "",
                                                        feePayer |-> ""],
                                       !.trace = <<"transfer">>],
                                    "getLatestBlockhash")
         ELSE IF send.pc = "getLatestBlockhash"
           THEN send' = next([send EXCEPT
                                !.transaction.recentBlockhash =
                                   <<"blockhash-1", "blockhash-2", "blockhash-1">>[value],
                                !.transaction.feePayer = send.transaction.fromPubkey],
                             "signTransaction")
         ELSE IF send.pc = "signTransaction"
           THEN send' = next([send EXCEPT
                                !.signedTransaction =
                                   <<"Transaction", "Buffer", "object">>[value]],
                             "sendRawTransaction")
         ELSE IF send.pc = "sendRawTransaction"
           THEN send' = [send EXCEPT !.pc = "done",
                                     !.signature = <<"sig-1", "sig-2", "sig-1">>[value],
                                     !.result = <<"sig-1", "sig-2", "sig-1">>[value]]
         ELSE \* confirmTransaction resolved: return {transactionHash: signature}
              send' = [send EXCEPT !.pc = "done", !.confirmed = TRUE,
                                   !.result = send.signature]
  /\ UNCHANGED <<impl, keyShares, provider, req, faults, op, auth, retry, cls, lastUpsert, ident, boot, sani, call, rlconf>>

\* the pending await settles: it rejects with `error`, or (NoError) resolves
\* with a value picked by `value`, and the call runs on to its next await,
\* to its return, or into the catch block
sendTransaction_Resume(error, value) ==
  /\ send.pc \notin {"idle", "done"}
  /\ LET thrown(status) == [send EXCEPT !.pc = "done", !.thrown = status]
         next(s, step) == [s EXCEPT !.pc = step, !.trace = Append(@, step)]
     IN  IF error # NoError
           THEN send' = thrown(Op_ThrownStatus[error])
         ELSE IF send.pc = "getDynamicSvmClient"
           THEN \* new PublicKey(to) throws for a string that is no public key
                IF send.to = "invalid"
                  THEN send' = thrown(handleDynamicSDKError(
                                        NewError("Invalid public key input"), NoAddr).status)
                  ELSE send' = next([send EXCEPT
                                       !.transaction = [fromPubkey |-> ProviderAddress("solana"),
                                                        toPubkey |-> send.to,
                                                        amount |-> send.amount,
                                                        recentBlockhash |-> "",
                                                        feePayer |-> ""],
                                       !.trace = <<"transfer">>],
                                    "getLatestBlockhash")
         ELSE IF send.pc = "getLatestBlockhash"
           THEN send' = next([send EXCEPT
                                !.transaction.recentBlockhash =
                                   <<"blockhash-1", "blockhash-2", "blockhash-1">>[value],
                                !.transaction.feePayer = send.transaction.fromPubkey],
                             "signTransaction")
         ELSE IF send.pc = "signTransaction"
           THEN send' = next([send EXCEPT
                                !.signedTransaction =
                                   <<"Transaction", "Buffer", "object">>[value]],
                             "sendRawTransaction")
         ELSE IF send.pc = "sendRawTransaction"
           THEN send' = next([send EXCEPT
                                !.signature = <<"sig-1", "sig-2", "sig-1">>[value]],
                             "confirmTransaction")
         ELSE \* confirmTransaction resolved: return {transactionHash: signature}
              send' = [send EXCEPT !.pc = "done", !.confirmed = TRUE,
                                   !.result = send.signature]
  /\ UNCHANGED <<impl, keyShares, provider, req, faults, op, auth, retry, cls, lastUpsert, ident, boot, sani, call, rlconf>>

SendInit ==
  /\ impl = "nest"
  /\ keyShares = {}
  /\ provider = [t \in ChainTypes |-> NoAddr]
  /\ req = [r \in Requests |-> IdleRequest]
  /\ faults = 0
  /\ op = IdleOp
  /\ auth = IdleAuth
  /\ retry = IdleRetry
  /\ cls = IdleCls
  /\ lastUpsert = NoUpsert
  /\ ident = IdleIdent
  /\ boot = IdleBoot
  /\ sani = IdleSani
  /\ call = IdleCall
  /\ rlconf = IdleRlconf
  /\ send = IdleSend

SendNext ==
  \/ \E to \in {"recipient-1", "recipient-2", "invalid"}, amount \in 1..3 :
       sendTransaction_Start(to, amount)
  \/ \E error \in TransientErrors \cup {NoError}, value \in 1..3 :
       sendTransaction_Resume(error, value)

SendSpec == SendInit /\ [][SendNext]_vars

(***************************************************************************)
(* The create endpoints: the HTTP status of a finished create request.     *)
(***************************************************************************)
\* walletRoute (Elysia): 201 for isNew, 200 otherwise; errors by message
walletRoute(response) ==
  IF response.kind = "ok"
    THEN IF response.isNew THEN 201 ELSE 200
    ELSE LET lowerMessage == toLowerCase(response.message)
         IN  IF \/ includes(lowerMessage, "wallet already exists")
                \/ includes(lowerMessage, "multiple wallets per chaintype")
                \/ includes(lowerMessage, "multiple wallets are not allowed")
               THEN 400
               ELSE 500

\* WalletContractController.create (NestJS): status 201 as const for every
\* wallet the service returns; an exception answers with its own status
WalletContractController_create(response) ==
  IF response.kind = "ok"
    THEN 201
    ELSE IF response.status = 0 THEN 500 ELSE response.status

\* the status the create endpoint of the running service answers with
CreateStatus(r) ==
  IF impl = "elysia"
    THEN walletRoute(req[r].response)
    ELSE WalletContractController_create(req[r].response)

(***************************************************************************)
(* Vocabulary of the properties                                            *)
(***************************************************************************)
Started(r) == req[r].pc # "idle"

Ok(r) == Done(r) /\ req[r].response.kind = "ok"

Failed(r) == Done(r) /\ req[r].response.kind = "error"

\* the chain column of the row a request reads and writes
StoreKey(r) ==
  IF impl = "elysia" THEN req[r].chain ELSE getDynamicNetworkId(req[r].chain)

\* the chain type whose provider client the request uses
FamilyOf(r) ==
  IF impl = "elysia" THEN req[r].chain ELSE getChainType(req[r].chain)

RowsOf(chain) == {s \in keyShares : s.chain = chain}

\* the step in which request r is issued / returns
Starts(r) == req[r].pc = "idle" /\ req'[r].pc # "idle"

Returns(r) == req[r].pc # "done" /\ req'[r].pc = "done"

RECURSIVE SumWrites(_)
SumWrites(rs) ==
  IF rs = {} THEN 0
  ELSE LET r == CHOOSE q \in rs : TRUE
       IN  req[r].writes + SumWrites(rs \ {r})

\* physical writes to the table made for one chain
WritesFor(chain) == SumWrites({r \in Requests : Started(r) /\ StoreKey(r) = chain})

(***************************************************************************)
(* C1: the first two provision calls for a chain, the second issued after  *)
(* the first returned successfully, return the same wallet id and address, *)
(* and exactly one of the two responses has isNew true.                    *)
(***************************************************************************)
FirstTwoInSequence(a, b) ==
  /\ a < b
  /\ Started(b)
  /\ a \in req[b].after
  /\ req[a].response.kind = "ok"
  /\ req[a].chain = req[b].chain
  /\ \A q \in Requests : (q < b /\ q # a) => FamilyOf(q) # FamilyOf(a)

C4_OneWalletPerChain ==
  \A s1, s2 \in keyShares : s1.chain = s2.chain => s1.address = s2.address

\* two requests for one chain were in flight together and a row was written
C4_Witness ==
  \E a, b \in Requests :
    /\ a # b
    /\ StoreKey(a) = StoreKey(b)
    /\ a \notin req[b].after /\ b \notin req[a].after
    /\ req[a].calls = 1 /\ req[b].calls = 1
    /\ Done(a) /\ Done(b)
    /\ RowsOf(StoreKey(a)) # {}

(***************************************************************************)
(* C5: a request whose existence check finds a row for the chain returns   *)
(* that row's address and derived id with isNew false, without a provider  *)
(* call and without a write.                                               *)
(***************************************************************************)
C5_ShortCircuit ==
  [][\A r \in Requests :
       (Starts(r) /\ RowsOf(StoreKey(r))' # {}) =>
          /\ req'[r].pc = "done"
          /\ \E s \in RowsOf(StoreKey(r))' :
               req'[r].response =
                 OkResponse(generateWalletId(s.address, s.chain), s.address, FALSE)
          /\ req'[r].calls = 0
          /\ req'[r].writes = 0
          /\ keyShares' = keyShares
          /\ provider' = provider]_vars

C5_Witness ==
  \E r \in Requests :
    /\ Ok(r)
    /\ req[r].calls = 0
    /\ ~req[r].response.isNew
    /\ \E s \in RowsOf(StoreKey(r)) : req[r].response.address = s.address

(***************************************************************************)
(* C6: a request for a chain the registry does not know fails with HTTP    *)
(* 400 and makes no provider call and no write.                            *)
(***************************************************************************)
C6_UnsupportedChain ==
  \A r \in Requests :
    (impl = "nest" /\ Started(r) /\ ~isSupportedChain(req[r].chain)) =>
      /\ Failed(r)
      /\ req[r].response.status = 400
      /\ req[r].calls = 0
      /\ req[r].writes = 0

C6_Witness ==
  \E r \in Requests :
    /\ impl = "nest"
    /\ req[r].chain = "999999"
    /\ Failed(r)
    /\ req[r].response.status = 400
    /\ keyShares # {}

(***************************************************************************)
(* C10: among the responses for one chain at most one has isNew true.      *)
(***************************************************************************)
C10_AtMostOneIsNew ==
  \A a, b \in Requests :
    (a # b /\ Ok(a) /\ Ok(b) /\ StoreKey(a) = StoreKey(b)) =>
      ~(req[a].response.isNew /\ req[b].response.isNew)

\* two concurrent requests for one chain both answered, one of them isNew
C10_Witness ==
  \E a, b \in Requests :
    /\ a # b
    /\ Ok(a) /\ Ok(b)
    /\ StoreKey(a) = StoreKey(b)
    /\ req[a].response.isNew
    /\ ~req[b].response.isNew
    /\ a \notin req[b].after /\ b \notin req[a].after

(***************************************************************************)
(* C2: two concurrent requests for one chain from an empty table, the      *)
(* provider rejects the creation of the second as a duplicate.             *)
(***************************************************************************)
Concurrent(a, b) == a # b /\ a \notin req[b].after /\ b \notin req[a].after

\* the request received the new wallet from the provider
GotWallet(a) == req[a].pc = "persist" \/ (Ok(a) /\ req[a].response.isNew)

RejectedAsDuplicate(b) == req[b].rawType = "multiple_wallets"

\* C2 as stated: under every interleaving the rejected request returns
\* successfully with the address of the other request and isNew false.
C2_Original ==
  \A a, b \in Requests :
    ( /\ Concurrent(a, b)
      /\ StoreKey(a) = StoreKey(b)
      /\ \A q \in Requests : (Started(q) /\ q \notin {a, b}) => FamilyOf(q) # FamilyOf(a)
      /\ faults = 0
      /\ GotWallet(a)
      /\ RejectedAsDuplicate(b)
      /\ Done(b) )
    => /\ Ok(b)
       /\ ~req[b].response.isNew
       /\ req[b].response.address = ProviderAddress(FamilyOf(a))

\* C2 amended: the rejected request returns the wallet (same address, isNew
\* false) when a re-query of the table finds the row, and returns
\* successfully only if the rejection carried the address or a re-query found
\* the row; when the rejection carries no address and the row is not yet
\* written at its last re-query, the request fails.
C2_Amended ==
  [][\A b \in Requests :
       (Returns(b) /\ RejectedAsDuplicate(b)') =>
         LET found == RowsOf(StoreKey(b)')
             response == req'[b].response
         IN  /\ found # {} =>
                  /\ response.kind = "ok"
                  /\ \A s \in found : response.address = s.address
             /\ response.kind = "ok" =>
                  /\ ~response.isNew
                  /\ response.address = ProviderAddress(FamilyOf(b)')
                  /\ (found # {} \/ req'[b].payload # NoAddr)
             /\ (found = {} /\ req'[b].payload = NoAddr) =>
                  response.kind = "error"]_vars

\* the rejected request recovered through a re-query, with no address in the
\* error, while the other request was in flight
C2_Witness ==
  \E a, b \in Requests :
    /\ Concurrent(a, b)
    /\ StoreKey(a) = StoreKey(b)
    /\ Ok(a) /\ req[a].response.isNew
    /\ RejectedAsDuplicate(b) /\ req[b].payload = NoAddr
    /\ Ok(b)
    /\ req[b].response.address = req[a].response.address

(***************************************************************************)
(* C7: an already-provisioned failure without an address is answered from  *)
(* the table when the row is there, and is thrown to the caller only if    *)
(* the address is neither in the error payload nor in the table.           *)
(***************************************************************************)
C7_RecoverOrEscalate ==
  [][\A r \in Requests :
       (Returns(r) /\ RejectedAsDuplicate(r)') =>
         LET found == RowsOf(StoreKey(r)')
             response == req'[r].response
         IN  /\ (req'[r].payload = NoAddr /\ found # {}) =>
                  /\ response.kind = "ok"
                  /\ ~response.isNew
                  /\ \E s \in found : response.address = s.address
             /\ response.kind = "error" =>
                  (req'[r].payload = NoAddr /\ found = {})]_vars

StatusOfType(type) ==
  CASE type = "multiple_wallets" -> 400
    [] type = "authentication" -> 401
    [] type = "rate_limit" -> 429
    [] type = "network" -> 502
    [] type = "not_found" -> 400
    [] type = "forbidden" -> 401
    [] OTHER -> 500

IsAlreadyProvisionedMessage(message) ==
  \E p \in MultipleWalletsPhrases : includes(toLowerCase(message), p)

C9_OtherKindsSurfaced ==
  \A r \in Requests :
    (Done(r) /\ req[r].rawType \notin {"none", "multiple_wallets"}) =>
      /\ Failed(r)
      /\ ~IsAlreadyProvisionedMessage(req[r].response.message)
      /\ impl = "nest" => req[r].response.status = StatusOfType(req[r].rawType)

(***************************************************************************)
(* C11: (NestJS) every wallet id returned by a successful create response  *)
(* identifies a record: a wallet list produced after the response holds    *)
(* the id, and balance, sign and send for the id do not end with 404.      *)
(***************************************************************************)
\* the step in which the wallet operation ends
OpCompletes == op' # op /\ op'.pc = "done"

ReturnedIds == {req[r].response.id : r \in {q \in Requests : Ok(q)}}

C11_ReturnedIdResolves ==
  [][OpCompletes =>
       /\ op'.kind = "list" => ReturnedIds \subseteq op'.ids
       /\ (op'.kind # "list" /\ op'.walletId \in ReturnedIds) => op'.status # 404]_vars

(***************************************************************************)
(* C12: the create endpoint answers 201 exactly when the service result    *)
(* has isNew true and 200 exactly when it has isNew false.                 *)
(***************************************************************************)
C12_StatusFollowsIsNew ==
  \A r \in Requests :
    Done(r) =>
      /\ CreateStatus(r) = 201 <=> (Ok(r) /\ req[r].response.isNew)
      /\ CreateStatus(r) = 200 <=> (Ok(r) /\ ~req[r].response.isNew)

(***************************************************************************)
(* C13: a caller is given a custody client handle only after that          *)
(* client's authentication has completed successfully.                     *)
(***************************************************************************)
C13_HandleAuthenticated ==
  \A c \in Requests :
    auth.caller[c].handle # 0 => auth.caller[c].handle \in auth.authenticated

(***************************************************************************)
(* C14: authenticateApiToken is called at most once per chain family.      *)
(***************************************************************************)
C14_AuthenticateOnce ==
  \A family \in ChainTypes : auth.authCalls[family] <= 1

(***************************************************************************)
(* C15: a failed authentication of one chain family leaves the other       *)
(* family alone: the step changes nothing of the other family, a getter    *)
(* throws only when an authentication of its own family failed, and a      *)
(* caller is only ever handed a client of its own family, so operations    *)
(* of the other family are served as before.                               *)
(***************************************************************************)
AuthenticatedOf(a, family) ==
  {client \in a.authenticated : a.caller[client].family = family}

C15_FailureIsLocal ==
  [][/\ \A f \in ChainTypes :
          (auth'.failed[f] /\ ~auth.failed[f]) =>
            \A g \in ChainTypes \ {f} :
              /\ auth'.cache[g] = auth.cache[g]
              /\ auth'.authCalls[g] = auth.authCalls[g]
              /\ auth'.failed[g] = auth.failed[g]
              /\ AuthenticatedOf(auth', g) = AuthenticatedOf(auth, g)
              /\ \A c \in Requests :
                    auth.caller[c].family = g => auth'.caller[c] = auth.caller[c]
     /\ \A c \in Requests :
          /\ auth'.caller[c].status # 0 => auth'.failed[auth'.caller[c].family]
          /\ auth'.caller[c].handle # 0 =>
               auth'.caller[auth'.caller[c].handle].family = auth'.caller[c].family]_vars

\* the evm authentication failed and a solana caller was served afterwards
C15_Witness ==
  /\ auth.failed["evm"]
  /\ ~auth.failed["solana"]
  /\ \E c \in Requests :
       /\ auth.caller[c].family = "solana"
       /\ auth.caller[c].used = "served"

(***************************************************************************)
(* C16: a call that fails with a rate-limit error (status 429 or a         *)
(* rate-limit message) is retried: retryWithBackoff gives up on such an    *)
(* error only when the attempt budget is used up.                          *)
(***************************************************************************)
C16_RateLimitRetried ==
  \A c \in Requests :
    (retry[c].result = "thrown" /\ IsRateLimit[retry[c].failure]) =>
      retry[c].attempts >= maxRetries

(***************************************************************************)
(* C17: a failure that is not a rate-limit error is never retried: the     *)
(* operation was invoked exactly once and its error is thrown unchanged.   *)
(***************************************************************************)
C17_OtherFailuresNotRetried ==
  \A c \in Requests :
    (retry[c].pc = "done" /\ retry[c].failure # NoError
       /\ ~IsRateLimit[retry[c].failure]) =>
      /\ retry[c].attempts = 1
      /\ retry[c].result = "thrown"
      /\ retry[c].thrown = retry[c].failure

C17_Witness ==
  \E c \in Requests :
    /\ retry[c].pc = "done"
    /\ retry[c].failure.status = 500
    /\ retry[c].attempts = 1
    /\ retry[c].thrown = retry[c].failure

(***************************************************************************)
(* C18: the classification is the earliest kind, in the order              *)
(* multiple_wallets, authentication, rate_limit, network, not_found,       *)
(* forbidden, of the kinds the error shows, and unknown only when it shows *)
(* none.                                                                   *)
(***************************************************************************)
FirstShown(shown) ==
  IF shown = {} THEN "unknown"
  ELSE KindOrder[CHOOSE i \in 1..Len(KindOrder) :
                   /\ KindOrder[i] \in shown
                   /\ \A j \in 1..(i - 1) : KindOrder[j] \notin shown]

C18_FirstMatchingKind ==
  cls.type # "none" => cls.type = FirstShown(cls.shown)

\* an error showing three kinds was classified as the earliest of them
C18_Witness ==
  /\ cls.type = "authentication"
  /\ {"authentication", "rate_limit", "forbidden"} \subseteq cls.shown

(***************************************************************************)
(* C19: the classification is multiple_wallets only for an error with a    *)
(* known already-exists phrase in its message, nested error, cause, stack  *)
(* or serialized form.                                                     *)
(***************************************************************************)
HasKnownPhrase(error) ==
  \E p \in MultipleWalletsPhrases :
    \/ includes(toLowerCase(error.message), p)
    \/ includes(toLowerCase(error.nested), p)
    \/ includes(toLowerCase(error.cause), p)
    \/ includes(toLowerCase(error.stack), p)
    \/ includes(toLowerCase(JsonStringify(error)), p)

C19_OnlyKnownPhrases ==
  cls.type = "multiple_wallets" => HasKnownPhrase(cls.input)

(***************************************************************************)
(* C21: (NestJS) users reach their own wallets only: a list holds only     *)
(* wallets provisioned by the requesting user, and balance, sign and send  *)
(* succeed only for the user who provisioned the wallet.  Every record of  *)
(* the store was provisioned by RequestUserId.                             *)
(***************************************************************************)
C21_OwnWalletsOnly ==
  [][(OpCompletes /\ op'.userId # RequestUserId) =>
       /\ op'.kind = "list" => op'.ids = {}
       /\ op'.kind # "list" => op'.status # 200]_vars

(***************************************************************************)
(* C22: after any sequence of upserts the table holds at most one record   *)
(* per (address, chain type); an upsert puts its row in the table, leaves  *)
(* the records of every other key as they were, and applying it once more  *)
(* changes nothing.                                                        *)
(***************************************************************************)
OneRecordPerKey(table) == \A a, b \in table : SameKey(a, b) => a = b

C22_UpsertByKey ==
  [][LET row == KeyShareRow(lastUpsert'.address, lastUpsert'.chain,
                            lastUpsert'.encryptedKeyShares)
     IN  /\ OneRecordPerKey(keyShares')
         /\ row \in keyShares'
         /\ \A s \in keyShares : ~SameKey(s, row) => s \in keyShares'
         /\ \A s \in keyShares' : s = row \/ s \in keyShares
         /\ Upsert(keyShares', row) = keyShares']_vars

\* the last upsert overwrote the ciphertext of a record while the table
\* held records of other keys
C22_Witness ==
  /\ lastUpsert.conflict
  /\ Cardinality(keyShares) >= 2
  /\ KeyShareRow(lastUpsert.address, lastUpsert.chain,
                 lastUpsert.encryptedKeyShares) \in keyShares

(***************************************************************************)
(* C23: (NestJS) no step deletes a record; list, balance, sign and send    *)
(* leave the table unchanged; and the table changes only by the upsert of  *)
(* a request that ends with a newly created wallet.                        *)
(***************************************************************************)
C23_OnlyProvisioningWrites ==
  [][/\ \A s \in keyShares : \E s2 \in keyShares' : SameKey(s, s2)
     /\ op' # op => keyShares' = keyShares
     /\ keyShares' # keyShares =>
          \E r \in Requests :
            /\ req[r].pc = "persist"
            /\ req'[r].pc = "done"
            /\ req'[r].response.kind = "ok"
            /\ req'[r].response.isNew
            /\ \E row \in keyShares' :
                 /\ generateWalletId(row.address, row.chain) = req'[r].response.id
                 /\ \A s \in keyShares' : s = row \/ s \in keyShares]_vars

\* two wallets are stored and a send on one of them succeeded
C23_Witness ==
  /\ Cardinality(keyShares) = 2
  /\ op.pc = "done"
  /\ op.kind = "send"
  /\ op.status = 200

(***************************************************************************)
(* C24: every record in the table holds the output of encrypt applied to   *)
(* the key shares the provider returned for the record's wallet, never the *)
(* shares themselves.                                                      *)
(***************************************************************************)
C24_OnlyCiphertextStored ==
  \A k \in keyShares :
    /\ k.encryptedKeyShares = encrypt(ProviderShares(k.address))
    /\ k.encryptedKeyShares # ProviderShares(k.address)

\* a request created a wallet and its record is in the table
C24_Witness ==
  \E r \in Requests :
    /\ Ok(r)
    /\ req[r].response.isNew
    /\ \E k \in keyShares :
         /\ k.address = req[r].response.address
         /\ k.encryptedKeyShares = encrypt(ProviderShares(k.address))

(***************************************************************************)
(* C27: (NestJS) in sign and send the key shares are decrypted before the  *)
(* custody provider is called; decryption runs once, and when it fails the *)
(* operation ends in that step with no call to the provider.               *)
(***************************************************************************)
C27_DecryptFirst ==
  [][/\ (op.pc = "decrypt" /\ op' # op) =>
          /\ op'.decrypts = 1
          /\ op'.calls = 0
          /\ op'.pc = "call" \/ (op'.pc = "done" /\ op'.status = 500)
     /\ (op'.kind \in {"sign", "send"} /\ op'.calls > op.calls) => op.decrypts = 1
     /\ op'.decrypts <= 1]_vars

\* a sign whose decryption failed: ended with 500 and no provider call
C27_Witness ==
  /\ op.pc = "done"
  /\ op.kind = "sign"
  /\ op.decrypts = 1
  /\ op.calls = 0
  /\ op.status = 500

(***************************************************************************)
(* C28: (NestJS) every createWalletAccount request sent to the provider,   *)
(* for the evm and the solana family, asks for the TWO_OF_TWO threshold    *)
(* signature scheme and for no backup of the shares by the provider.       *)
(***************************************************************************)
C28_TwoOfTwoNoBackup ==
  \A r \in Requests :
    (impl = "nest" /\ req[r].calls > 0) =>
      /\ req[r].sdkParams.thresholdSignatureScheme = "TWO_OF_TWO"
      /\ ~req[r].sdkParams.backUpToClientShareService

\* a wallet was requested for each of the two families
C28_Witness ==
  \E a, b \in Requests :
    /\ impl = "nest"
    /\ req[a].calls > 0 /\ getChainType(req[a].chain) = "evm"
    /\ req[b].calls > 0 /\ getChainType(req[b].chain) = "solana"
    /\ req[a].sdkParams = req[b].sdkParams
    /\ req[a].sdkParams.thresholdSignatureScheme = "TWO_OF_TWO"

C29_ShortKeyRejected ==
  (boot.state # "" /\ boot.env.ENCRYPTION_KEY < MinKeyLength) =>
    /\ boot.state # "running"
    /\ boot.served = {}

(***************************************************************************)
(* C26: whatever text the upstream error carries, no message on its way to *)
(* the caller holds a configuration variable name, secret material or an   *)
(* upstream stack frame.                                                   *)
(***************************************************************************)
LeakMarkers ==
  {"ENCRYPTION_KEY", "DYNAMIC_API_TOKEN", "DATABASE_URL",
   ProviderShares(ProviderAddress("evm")), "node_modules/sdk/index.js:10:5"}

Leaks(message) == \E marker \in LeakMarkers : includes(message, marker)

C26_NoLeakInMessage ==
  /\ sani.state \in {"thrown", "sanitized"} => ~Leaks(sani.message)
  /\ sani.state = "sanitized" => ~Leaks(sani.sanitized)

(***************************************************************************)
(* C25: an awaited call of a provision, sign, send or balance request      *)
(* always leads to the request's completion; when the remote side never    *)
(* responds, it completes with an error classified as network.             *)
(***************************************************************************)
C25_CallsTimeOut ==
  (call.state = "awaiting" /\ call.site.op # "auth") ~>
    /\ call.state = "responded"
    /\ call.outcome = "never" => (call.result = "error" /\ call.type = "network")

(***************************************************************************)
(* C31: an error whose status code is 429 is classified rate_limit (429)   *)
(* whatever its message says.                                              *)
(***************************************************************************)
C31_Status429IsRateLimit ==
  (cls.type # "none" /\ cls.input.status = 429) =>
    (cls.type = "rate_limit" /\ cls.statusCode = 429)

(***************************************************************************)
(* C32: an error with a known already-exists phrase in any one of its      *)
(* message, nested error, cause or stack is classified multiple_wallets,   *)
(* whatever the other places hold.                                         *)
(***************************************************************************)
C32_PhraseInAnyPlace ==
  (cls.type # "none" /\ HasKnownPhrase(cls.input)) =>
    (cls.type = "multiple_wallets" /\ cls.statusCode = 400)

\* the phrase was in error.cause only, under a generic message
C32_Witness ==
  /\ cls.type = "multiple_wallets"
  /\ cls.input.status = 0
  /\ \E p \in MultipleWalletsPhrases : includes(toLowerCase(cls.input.cause), p)
  /\ \A p \in MultipleWalletsPhrases :
       /\ ~includes(toLowerCase(cls.input.message), p)
       /\ ~includes(toLowerCase(cls.input.stack), p)
  /\ cls.input.nested = ""

RECURSIVE Pow2(_)
Pow2(n) == IF n = 0 THEN 1 ELSE 2 * Pow2(n - 1)

Min(a, b) == IF a <= b THEN a ELSE b

\* a retry-after of "2" is two seconds
BackoffDelays(attempt, retryAfter) ==
  IF retryAfter = "2" THEN {2, 2000}
  ELSE LET computed == Min(maxDelayMs, baseDelayMs * Pow2(attempt))
       IN  computed..(computed + jitterMaxMs)

C34_BackoffDelay ==
  \A c \in Requests :
    (retry[c].failure # NoError /\ IsRateLimit[retry[c].failure]
       /\ retry[c].attempts < maxRetries) =>
      /\ Len(retry[c].waited) = retry[c].attempts
      /\ \A i \in 1..Len(retry[c].waited) :
           retry[c].waited[i] \in BackoffDelays(i - 1, retry[c].retryAfter)

(***************************************************************************)
(* C35: once initialised the retry configuration holds positive integers,  *)
(* and a supplied configuration or environment value that is not a         *)
(* positive integer makes the initialisation fail.                         *)
(***************************************************************************)
\* the text is a decimal numeral of a positive integer
IsPositiveIntegerText(s) ==
  /\ Len(s) > 0
  /\ \A i \in 1..Len(s) : SubSeq(s, i, i) \in {"0", "1", "2", "3", "4", "5", "6", "7", "8", "9"}
  /\ \E i \in 1..Len(s) : SubSeq(s, i, i) # "0"

\* the value the service reads for a field is not a positive integer
BadSupplied(v) ==
  IF v.conf.k # "undefined" THEN ~(v.conf.tenths % 10 = 0 /\ v.conf.tenths > 0)
  ELSE v.env # "" /\ ~IsPositiveIntegerText(v.env)

C35_PositiveIntegersOnly ==
  rlconf.state \in {"ready", "failed"} =>
    /\ rlconf.state = "ready" => \A f \in DOMAIN rlconf.config : rlconf.config[f] \in Nat \ {0}
    /\ (\E f \in DOMAIN rlconf.supplied : BadSupplied(rlconf.supplied[f])) =>
         rlconf.state = "failed"

(***************************************************************************)
(* C36: a provision request whose createWallet call or whose encryption    *)
(* fails writes nothing: the failing step and every later step of the      *)
(* request leave the table as it is.                                       *)
(***************************************************************************)
C36_FailureWritesNothing ==
  [][\A r \in Requests :
       LET threw == /\ req[r].pc \in {"create", "persist"}
                    /\ req'[r] # req[r]
                    /\ ~(req[r].pc = "create" /\ req'[r].pc = "persist")
                    /\ req'[r].writes = req[r].writes
           recovers == /\ req[r].pc \in {"finalCheck", "innerRequery", "innerFallback",
                                         "outerRequery", "outerFallback"}
                       /\ req'[r] # req[r]
       IN  (threw \/ recovers) =>
             /\ keyShares' = keyShares
             /\ req'[r].writes = 0]_vars

\* the provider created a wallet, the encryption failed, and the table has
\* no row for it
C36_Witness ==
  \E r \in Requests :
    /\ Failed(r)
    /\ req[r].response.message = EncryptionError.message
    /\ req[r].calls = 1
    /\ req[r].writes = 0
    /\ provider[FamilyOf(r)] # NoAddr
    /\ RowsOf(StoreKey(r)) = {}

SendOrder ==
  <<"transfer", "getLatestBlockhash", "signTransaction", "sendRawTransaction",
    "confirmTransaction">>

C38_HashOnlyAfterConfirmation ==
  /\ Len(send.trace) <= Len(SendOrder)
  /\ send.trace = SubSeq(SendOrder, 1, Len(send.trace))
  /\ send.result # "" =>
       /\ send.trace = SendOrder
       /\ send.confirmed
       /\ send.result = send.signature
       /\ send.signature # ""
       /\ send.transaction.recentBlockhash # ""
       /\ send.signedTransaction # ""
       /\ send.thrown = 0
  /\ send.thrown # 0 => send.result = ""
  /\ send.pc = "done" => (send.result = "") # (send.thrown = 0)

\* a send went through every step and returned the hash it was given
C38_Witness ==
  /\ send.pc = "done"
  /\ send.result = "sig-2"
  /\ send.confirmed
  /\ send.trace = SendOrder

(***************************************************************************)
(* C20: (NestJS) balance, sign and send for a wallet id that matches no    *)
(* key-share record end with 404, with no decryption and no call to the    *)
(* custody provider or the RPC endpoint.                                   *)
(***************************************************************************)
MatchesNoRecord(walletId) ==
  \A k \in keyShares : generateWalletId(k.address, k.chain) # walletId

====
